---- MODULE Spec2Model ----
(***************************************************************************)
(* Model of the UNSEEN statistical engine (src/methods/unseen.py) and of   *)
(* the bootstrap helpers of the figure scripts.                            *)
(*                                                                         *)
(* Numbers.  The program computes in float64.  The model computes the same *)
(* expressions in exact rational arithmetic: a number is a record          *)
(* [n |-> numerator, d |-> denominator] in lowest terms with d > 0, and    *)
(* NaN is the record with d = 0.  Comparisons with NaN are false, and      *)
(* arithmetic on NaN gives NaN, as in IEEE arithmetic.                     *)
(*                                                                         *)
(* Arrays.  A one-dimensional array is a sequence (index 1 is numpy index  *)
(* 0).  A labelled array is a function from its coordinate labels.         *)
(***************************************************************************)
EXTENDS Integers, Sequences, FiniteSets, TLC

VARIABLES
    pc,       \* position of the running call: "start", a loop label, "done" or "error"
    args,     \* the arguments of the running call, a record named after the parameters
    loc,      \* the local variables of the running call's loops
    ret       \* the returned value, or the raised exception

vars == <<pc, args, loc, ret>>

----------------------------------------------------------------------------
(* Bounds of the model *)

MaxLen == 3        \* longest sample handed to _calc_percentile directly
MaxVal == 2        \* sample values and thresholds range over -1 .. MaxVal
MaxSample == 2     \* largest sample size of a distribution handed to get_funcstrength_risk
MaxGthan == 2      \* degr_gthan ranges over 0 .. MaxGthan
MaxStep == 2       \* degr_step ranges over 1 .. MaxStep
MaxIter == 2       \* n_iterations ranges over 1 .. MaxIter
MaxYear == 3       \* the trend series covers the years 1 .. MaxYear; pivot years 0 .. MaxYear + 1
MaxObs == 2        \* seasonal means range over 0 .. MaxObs

----------------------------------------------------------------------------
(* Exact arithmetic standing for float64 *)

Abs(a) == IF a < 0 THEN -a ELSE a

RECURSIVE Gcd(_, _)
Gcd(a, b) == IF b = 0 THEN a ELSE Gcd(b, a % b)

NaN == [n |-> 0, d |-> 0]

IsNaN(a) == a.d = 0

Rat(num, den) ==
    IF den = 0 THEN NaN
    ELSE LET s == IF den < 0 THEN -1 ELSE 1
             g == Gcd(Abs(num), Abs(den))
         IN  [n |-> (s * num) \div g, d |-> (s * den) \div g]

FromInt(i) == [n |-> i, d |-> 1]

Add(a, b) == IF IsNaN(a) \/ IsNaN(b) THEN NaN ELSE Rat(a.n * b.d + b.n * a.d, a.d * b.d)

Sub(a, b) == IF IsNaN(a) \/ IsNaN(b) THEN NaN ELSE Rat(a.n * b.d - b.n * a.d, a.d * b.d)

Mul(a, b) == IF IsNaN(a) \/ IsNaN(b) THEN NaN ELSE Rat(a.n * b.n, a.d * b.d)

Div(a, b) == IF IsNaN(a) \/ IsNaN(b) THEN NaN ELSE Rat(a.n * b.d, a.d * b.n)

Leq(a, b) == ~IsNaN(a) /\ ~IsNaN(b) /\ a.n * b.d <= b.n * a.d

Lt(a, b) == ~IsNaN(a) /\ ~IsNaN(b) /\ a.n * b.d < b.n * a.d

Zero == FromInt(0)

Hundred == FromInt(100)

None == [none |-> TRUE]

----------------------------------------------------------------------------
(* _calc_percentile *)

\* np.count_nonzero(arr <= x): the number of indices at which the comparison holds
CountNonzeroLeq(a, thr) == Cardinality({i \in DOMAIN a : Leq(a[i], thr)})

\* _calc_percentile with the comparison reversed to "<" (ties counted as exceeding)
CalcPercentileStrict(a, thr) ==
    Sub(Hundred, Mul(Rat(Cardinality({i \in DOMAIN a : Lt(a[i], thr)}), Len(a)), Hundred))

\* prob = 100 - (np.count_nonzero(arr <= x) / arr.size * 100)
CalcPercentile(a, thr) ==
    Sub(Hundred, Mul(Rat(CountNonzeroLeq(a, thr), Len(a)), Hundred))

----------------------------------------------------------------------------
(* Specification SpecPercentile: one call of _calc_percentile(arr, x) *)

SampleValues == {FromInt(v) : v \in -1 .. MaxVal}

RECURSIVE SeqsUpTo(_, _)
SeqsUpTo(S, k) ==
    IF k = 0 THEN {<<>>}
    ELSE LET shorter == SeqsUpTo(S, k - 1)
         IN  shorter \cup {Append(s, v) : s \in {t \in shorter : Len(t) = k - 1}, v \in S}

InitPercentile ==
    /\ pc = "start"
    /\ args \in {[fn |-> "_calc_percentile", arr |-> a, x |-> t] :
                    a \in SeqsUpTo(SampleValues, MaxLen) \ {<<>>}, t \in SampleValues}
    /\ loc = None
    /\ ret = None

CallCalcPercentile ==
    /\ pc = "start"
    /\ args.fn = "_calc_percentile"
    /\ ret' = [prob |-> CalcPercentile(args.arr, args.x)]
    /\ pc' = "done"
    /\ UNCHANGED <<args, loc>>

NextPercentile == CallCalcPercentile

SpecPercentile == InitPercentile /\ [][NextPercentile]_vars

----------------------------------------------------------------------------
(* C1: for every non-empty sample and threshold x, _calc_percentile        *)
(* returns 100 - (count of values <= x) / size * 100, which is the         *)
(* percentage of sample values strictly greater than x; a value equal to x *)
(* is counted as not exceeding.                                            *)

PercentileDone == pc = "done" /\ args.fn = "_calc_percentile"

NumGreater(a, thr) == Cardinality({i \in DOMAIN a : Lt(thr, a[i])})

NumEqual(a, thr) == Cardinality({i \in DOMAIN a : a[i] = thr})

C1_ExceedanceIsStrictlyGreaterShare ==
    PercentileDone =>
        /\ ret.prob.d # 0
        /\ ret.prob.n * Len(args.arr) = 100 * NumGreater(args.arr, args.x) * ret.prob.d
        /\ ret.prob.n * Len(args.arr) =
              (100 * Len(args.arr)
                 - 100 * (Len(args.arr) - NumGreater(args.arr, args.x))) * ret.prob.d

C1_Witness ==
    /\ PercentileDone
    /\ NumEqual(args.arr, args.x) > 0
    /\ NumGreater(args.arr, args.x) > 0
    /\ NumGreater(args.arr, args.x) + NumEqual(args.arr, args.x) < Len(args.arr)

----------------------------------------------------------------------------
(* numpy helpers used by the risk estimators *)

\* the smallest integer >= a
Ceil(a) == -((-a.n) \div a.d)

\* the largest integer <= a
Floor(a) == a.n \div a.d

\* np.arange(0, stop, step): ceil(stop / step) values 0, step, 2*step, ...
Arange(stop, step) ==
    LET len == Ceil(Div(stop, step))
    IN  [i \in 1 .. (IF len > 0 THEN len ELSE 0) |-> Mul(FromInt(i - 1), step)]

\* arr[random_idxs]: fancy indexing with an index vector (indices 0 .. size-1)
Take(a, idxs) == [i \in DOMAIN idxs |-> a[idxs[i] + 1]]

\* np.random.randint(0, high, size=size): every index vector is a possible draw
RandintDraws(high, size) == [1 .. size -> 0 .. (high - 1)]

RECURSIVE Insert(_, _)
Insert(sorted, v) ==
    IF sorted = <<>> THEN <<v>>
    ELSE IF Leq(v, Head(sorted)) THEN <<v>> \o sorted
    ELSE <<Head(sorted)>> \o Insert(Tail(sorted), v)

RECURSIVE Sort(_)
Sort(a) == IF a = <<>> THEN <<>> ELSE Insert(Sort(Tail(a)), Head(a))

\* DataArray.quantile(q, dim="iteration"): linear interpolation between the
\* order statistics at virtual index (N - 1) * q
Quantile(a, q) ==
    LET sorted == Sort(a)
        pos    == Mul(FromInt(Len(a) - 1), q)
        lo     == Floor(pos)
        frac   == Sub(pos, FromInt(lo))
        hi     == IF lo + 1 < Len(a) THEN lo + 1 ELSE lo
    IN  Add(sorted[lo + 1], Mul(frac, Sub(sorted[hi + 1], sorted[lo + 1])))

quantile_low == Rat(25, 1000)

quantile_high == Rat(975, 1000)

----------------------------------------------------------------------------
(* get_funcstrength_risk *)

\* get_funcstrength_risk scoring against x_base - incre
GetFuncstrengthRiskWeaker(unseen_distr, focus_event, degr_gthan, degr_step) ==
    LET increments == Arange(Add(degr_gthan, degr_step), degr_step)
    IN  [increment |-> increments,
         risk |-> [r_idx \in DOMAIN unseen_distr.region |->
                     [g \in DOMAIN increments |->
                        CalcPercentile(unseen_distr.data[r_idx],
                            Sub(focus_event[unseen_distr.region[r_idx]], increments[g]))]]]

\* the DataArray risks_incremented: coordinate "increment" and the values by
\* (region index, increment index)
GetFuncstrengthRisk(unseen_distr, focus_event, degr_gthan, degr_step) ==
    LET increments == Arange(Add(degr_gthan, degr_step), degr_step)
    IN  [increment |-> increments,
         risk |-> [r_idx \in DOMAIN unseen_distr.region |->
                     [g \in DOMAIN increments |->
                        CalcPercentile(unseen_distr.data[r_idx],
                            Add(focus_event[unseen_distr.region[r_idx]], increments[g]))]]]

----------------------------------------------------------------------------
(* Specification SpecStrength: one call of get_funcstrength_risk on a      *)
(* two-region distribution                                                 *)

RegionNames == <<"Celtic Sea", "Central North Sea">>

ConstantSeq(v, k) == [i \in 1 .. k |-> v]

\* two-region distributions (all regions share the sample axis): one region
\* holds an arbitrary sample, the other a sample of equal values
DistrChoices(values, maxSize) ==
    UNION {{[region |-> RegionNames, data |-> <<a, ConstantSeq(c, Len(a))>>],
            [region |-> RegionNames, data |-> <<ConstantSeq(c, Len(a)), a>>]} :
                a \in SeqsUpTo(values, maxSize) \ {<<>>},
                c \in {FromInt(0), FromInt(1)}}

FocusChoices ==
    {[name \in {RegionNames[i] : i \in DOMAIN RegionNames} |->
        IF name = RegionNames[1] THEN a ELSE b] : a, b \in {FromInt(0), FromInt(1)}}

\* the focus events of the bootstrap calls
BootFocusChoices == {f \in FocusChoices : f[RegionNames[2]] = Zero}

InitStrength ==
    /\ pc = "start"
    /\ args \in {[fn |-> "get_funcstrength_risk", unseen_distr |-> u, focus_event |-> f,
                  degr_gthan |-> FromInt(g), degr_step |-> FromInt(st)] :
                    u \in DistrChoices(SampleValues, MaxSample),
                    f \in FocusChoices, g \in 0 .. MaxGthan, st \in 1 .. MaxStep}
    /\ loc = None
    /\ ret = None

CallGetFuncstrengthRisk ==
    /\ pc = "start"
    /\ args.fn = "get_funcstrength_risk"
    /\ ret' = GetFuncstrengthRisk(args.unseen_distr, args.focus_event,
                                  args.degr_gthan, args.degr_step)
    /\ pc' = "done"
    /\ UNCHANGED <<args, loc>>

NextStrength == CallGetFuncstrengthRisk

SpecStrength == InitStrength /\ [][NextStrength]_vars

----------------------------------------------------------------------------
(* C2: for a fixed distribution and focus event the curve returned by      *)
(* get_funcstrength_risk is non-increasing in increment: for every region  *)
(* and grid increments i < j, risk(j) <= risk(i).                          *)

StrengthDone == pc = "done" /\ args.fn = "get_funcstrength_risk"

C2_RiskNonIncreasingInIncrement ==
    StrengthDone =>
        \A r \in DOMAIN ret.risk : \A i, j \in DOMAIN ret.increment :
            Lt(ret.increment[i], ret.increment[j]) => Leq(ret.risk[r][j], ret.risk[r][i])

C2_Witness ==
    /\ StrengthDone
    /\ \E r \in DOMAIN ret.risk : \E i, j \in DOMAIN ret.increment :
          /\ Lt(ret.increment[i], ret.increment[j])
          /\ Lt(ret.risk[r][j], ret.risk[r][i])
          /\ Lt(Zero, ret.risk[r][j])

----------------------------------------------------------------------------
(* C3: for max_increment >= 0 and step > 0 the increment grid is exactly   *)
(* the multiples 0, step, 2*step, ... lying in [0, max_increment]; no grid *)
(* point exceeds max_increment, also when max_increment is not a multiple  *)
(* of step; grid value i is scored against focus_event + i.                *)

GridValues(grid) == {grid[i] : i \in DOMAIN grid}

MultiplesWithin(maxInc, step) ==
    {Mul(FromInt(k), step) : k \in 0 .. Floor(Div(maxInc, step))}

C3_GridStaysWithinMaxIncrement ==
    StrengthDone =>
        /\ GridValues(ret.increment) = MultiplesWithin(args.degr_gthan, args.degr_step)
        /\ \A g \in DOMAIN ret.increment : Leq(ret.increment[g], args.degr_gthan)
        /\ \A r \in DOMAIN ret.risk : \A g \in DOMAIN ret.increment :
              ret.risk[r][g] =
                 CalcPercentile(args.unseen_distr.data[r],
                     Add(args.focus_event[args.unseen_distr.region[r]], ret.increment[g]))

----------------------------------------------------------------------------
(* get_fs_perc_low_high: the bootstrap loops run one resample per step     *)

\* lines 153-160: the grid and the empty result lists
\* an entry that sorts the values of the distribution where they are stored
FsEnterSortsInPlace ==
    /\ pc = "start"
    /\ args.fn = "get_fs_perc_low_high"
    /\ loc' = [increments |-> Arange(Add(args.degr_gthan, args.degr_step), args.degr_step),
               r_idx |-> 1, ii |-> 1, draws |-> 0,
               risk_tmp |-> <<>>, risks_incre |-> <<>>, risks_bootstrapped |-> <<>>,
               random_sample |-> <<>>]
    /\ pc' = "fs_draw"
    /\ args' = [args EXCEPT !.unseen_distr.data =
                    [r \in DOMAIN args.unseen_distr.data |-> Sort(args.unseen_distr.data[r])]]
    /\ UNCHANGED ret

FsEnter ==
    /\ pc = "start"
    /\ args.fn = "get_fs_perc_low_high"
    /\ loc' = [increments |-> Arange(Add(args.degr_gthan, args.degr_step), args.degr_step),
               r_idx |-> 1, ii |-> 1, draws |-> 0,
               risk_tmp |-> <<>>, risks_incre |-> <<>>, risks_bootstrapped |-> <<>>,
               random_sample |-> <<>>]
    /\ pc' = "fs_draw"
    /\ UNCHANGED <<args, ret>>

\* the resample of one iteration, drawn one element too short
FsResampleShort(a, random_idxs) == Take(a, SubSeq(random_idxs, 1, Len(random_idxs) - 1))

\* lines 165-166: random_sample = arr[random_idxs]
FsResample(a, random_idxs) == Take(a, random_idxs)

\* the statistic of one iteration, with the resample scored against x_base only
FsStatisticNoIncrement(random_sample, x_base, incre) == CalcPercentile(random_sample, x_base)

\* line 167: prob = _calc_percentile(random_sample, x_base + incre)
FsStatistic(random_sample, x_base, incre) == CalcPercentile(random_sample, Add(x_base, incre))

\* lines 161-170: one iteration of the innermost loop, and the appends and
\* loop advances that follow it when an inner loop ends
FsDraw ==
    /\ pc = "fs_draw"
    /\ LET arr    == args.unseen_distr.data[loc.r_idx]
           x_base == args.focus_event[args.unseen_distr.region[loc.r_idx]]
           incre  == loc.increments[loc.ii]
       IN  \E random_idxs \in RandintDraws(Len(arr), Len(arr)) :
             LET random_sample == FsResample(arr, random_idxs)
                 prob          == FsStatistic(random_sample, x_base, incre)
                 risk_tmp      == Append(loc.risk_tmp, prob)
                 risks_incre   == Append(loc.risks_incre, risk_tmp)
                 drawn         == [loc EXCEPT !.random_sample = random_sample,
                                              !.draws = loc.draws + 1]
             IN  IF Len(risk_tmp) < args.n_iterations
                 THEN /\ loc' = [drawn EXCEPT !.risk_tmp = risk_tmp]
                      /\ pc' = "fs_draw"
                 ELSE IF loc.ii < Len(loc.increments)
                 THEN /\ loc' = [drawn EXCEPT !.risk_tmp = <<>>, !.risks_incre = risks_incre,
                                              !.ii = loc.ii + 1]
                      /\ pc' = "fs_draw"
                 ELSE IF loc.r_idx < Len(args.unseen_distr.region)
                 THEN /\ loc' = [drawn EXCEPT !.risk_tmp = <<>>, !.risks_incre = <<>>,
                                    !.risks_bootstrapped = Append(@, risks_incre),
                                    !.ii = 1, !.r_idx = loc.r_idx + 1]
                      /\ pc' = "fs_draw"
                 ELSE /\ loc' = [drawn EXCEPT !.risk_tmp = <<>>, !.risks_incre = <<>>,
                                    !.risks_bootstrapped = Append(@, risks_incre)]
                      /\ pc' = "fs_quantile"
    /\ UNCHANGED <<args, ret>>

\* the bounds of one (region, grid point), with the two quantile levels swapped
BootstrapBoundsSwapped(risks) ==
    [r \in DOMAIN risks |-> [g \in DOMAIN risks[r] |->
        [low  |-> Quantile(risks[r][g], quantile_high),
         high |-> Quantile(risks[r][g], quantile_low)]]]

\* lines 182-183 and 338-339: quantile(quantile_low), quantile(quantile_high) over "iteration"
BootstrapBounds(risks) ==
    [r \in DOMAIN risks |-> [g \in DOMAIN risks[r] |->
        [low  |-> Quantile(risks[r][g], quantile_low),
         high |-> Quantile(risks[r][g], quantile_high)]]]

\* lines 171-185: the labelled array of all statistics and its two quantiles
FsQuantiles ==
    /\ pc = "fs_quantile"
    /\ ret' = [increment |-> loc.increments,
               bounds |-> BootstrapBounds(loc.risks_bootstrapped)]
    /\ pc' = "done"
    /\ UNCHANGED <<args, loc>>

----------------------------------------------------------------------------
(* The calls of get_fs_perc_low_high: a two-region distribution of one or  *)
(* two values per region                                                   *)

BootValues == {FromInt(v) : v \in 0 .. 2}

InitFsBoot ==
    /\ pc = "start"
    /\ args \in {[fn |-> "get_fs_perc_low_high", unseen_distr |-> u, focus_event |-> f,
                  n_iterations |-> n, degr_gthan |-> FromInt(g), degr_step |-> FromInt(st)] :
                    u \in DistrChoices(BootValues, 2), f \in BootFocusChoices,
                    n \in 1 .. MaxIter,
                    g \in 0 .. 1, st \in 1 .. 2}
    /\ loc = None
    /\ ret = None

----------------------------------------------------------------------------
(* Labelled arrays and reductions *)

\* the sequence a itself; the identity on sequences, written so that TLC
\* computes the elements once instead of at every use
Eager(a) == SubSeq(a, 1, Len(a))

RECURSIVE Sum(_)
Sum(a) == IF a = <<>> THEN Zero ELSE Add(Head(a), Sum(Tail(a)))

\* the values of a that are not NaN, in order
DropNaN(a) == SelectSeq(a, LAMBDA v : ~IsNaN(v))

\* DataArray.mean(dim) of float data: NaN entries are skipped (skipna), and
\* the mean of no value is NaN
Mean(a) == Div(Sum(DropNaN(a)), FromInt(Len(DropNaN(a))))

\* the position of a label in a coordinate, 0 when the label is absent
IndexOf(labels, label) ==
    IF \E i \in DOMAIN labels : labels[i] = label
    THEN CHOOSE i \in DOMAIN labels : labels[i] = label
    ELSE 0

Raised(exc) == [raised |-> exc]

IsRaised(v) == "raised" \in DOMAIN v

----------------------------------------------------------------------------
(* scipy.stats.linregress and _get_pivot_arr *)

\* the line of a slope through the point of the means
LineThroughMeans(slope, xmean, ymean) ==
    [slope |-> slope, intercept |-> Sub(ymean, Mul(slope, xmean))]

\* slope = cov(x, y) / var(x) about the means
LinregressAbout(xs, ys, xmean, ymean) ==
    LineThroughMeans(
        Div(Div(Sum([i \in DOMAIN xs |-> Mul(Sub(xs[i], xmean), Sub(ys[i], ymean))]),
                FromInt(Len(xs))),
            Div(Sum([i \in DOMAIN xs |-> Mul(Sub(xs[i], xmean), Sub(xs[i], xmean))]),
                FromInt(Len(xs)))),
        xmean, ymean)

\* linregress(x, y): slope = cov(x, y) / var(x), intercept = ymean - slope * xmean
Linregress(xs, ys) ==
    CHOOSE regr \in
        {LinregressAbout(xs, ys, xmean, ymean) :
            xmean \in {Div(Sum(xs), FromInt(Len(xs)))},
            ymean \in {Div(Sum(ys), FromInt(Len(ys)))}} : TRUE

\* regr_gs.slope * years + regr_gs.intercept, labelled by the years
TrendLine(regr_gs, years) ==
    [year |-> years,
     data |-> Eager([i \in DOMAIN years |->
                 Add(Mul(regr_gs.slope, FromInt(years[i])), regr_gs.intercept)])]

\* lines 34-45: the series the line is fitted to
PivotRegressand(seasonal_dat, region_idx, system) ==
    IF system = "obs"
    THEN seasonal_dat.data[region_idx]
    ELSE Eager([i \in DOMAIN seasonal_dat.year |-> Mean(seasonal_dat.data[region_idx][i])])

\* lines 34-45: the years y_pred is evaluated at and labelled by
PivotPredYears(seasonal_dat, system, extrapolated, extrapolate_yrs) ==
    IF system # "obs" /\ extrapolated THEN extrapolate_yrs ELSE seasonal_dat.year

\* lines 52-60 with the obs offsets labelled by the trend series' years
PivotDiffYearsTrend(seasonal_dat, hindcast_years, system) == seasonal_dat.year

\* lines 52-60 with the offsets of both systems labelled by the hindcast years
PivotDiffYearsHindcast(seasonal_dat, hindcast_years, system) == hindcast_years

\* lines 52-60: the years the returned offsets are evaluated at and labelled by
PivotDiffYears(seasonal_dat, hindcast_years, system) ==
    IF system = "obs" THEN hindcast_years ELSE seasonal_dat.year

\* line 48 taking the fitted value of the first year instead of the pivot year
PivotPointFirst(y_pred, year) == y_pred.data[1]

\* line 48: y_point = float(y_pred.sel(year=year)); the caller has checked the label
PivotPoint(y_pred, year) == y_pred.data[IndexOf(y_pred.year, year)]

\* offsets that are the line itself, whatever the pivot year
PivotOffsetsUnpivoted(regr_gs, y_point, line) ==
    [regr_gs |-> regr_gs, y_point |-> y_point,
     diff_trend |-> [year |-> line.year, data |-> line.data]]

\* lines 55-62: diff_trend, the line over the returned years minus y_point
PivotOffsets(regr_gs, y_point, line) ==
    [regr_gs |-> regr_gs, y_point |-> y_point,
     diff_trend |-> [year |-> line.year,
                     data |-> Eager([i \in DOMAIN line.year |->
                                 Sub(line.data[i], y_point)])]]

\* lines 48-62: y_point selected from y_pred, KeyError when the label is absent
PivotSelect(seasonal_dat, year, hindcast_years, system, regr_gs, y_pred) ==
    IF IndexOf(y_pred.year, year) = 0
    THEN Raised("KeyError")
    ELSE PivotOffsets(regr_gs, PivotPoint(y_pred, year),
                      TrendLine(regr_gs, PivotDiffYears(seasonal_dat, hindcast_years, system)))

\* lines 39-62: y_pred of the fitted line, then the offsets
PivotFit(seasonal_dat, year, hindcast_years, system, extrapolated, extrapolate_yrs, regr_gs) ==
    CHOOSE res \in
        {PivotSelect(seasonal_dat, year, hindcast_years, system, regr_gs, y_pred) :
            y_pred \in {TrendLine(regr_gs, PivotPredYears(seasonal_dat, system, extrapolated,
                                                          extrapolate_yrs))}} : TRUE

\* _get_pivot_arr: the locals and the returned diff_trend, or the exception.
\* A seasonal array with a realisation axis cannot be regressed as "obs"
\* (linregress on a two-dimensional series), and one without cannot be
\* averaged over "realisation"; both end in ValueError.
GetPivotArr(seasonal_dat, year, region_idx, hindcast_years, system, extrapolated, extrapolate_yrs) ==
    IF extrapolated /\ extrapolate_yrs = None
    THEN Raised("ValueError")
    ELSE IF (system = "obs") # (seasonal_dat.nreal = 0)
    THEN Raised("ValueError")
    ELSE CHOOSE res \in
            {PivotFit(seasonal_dat, year, hindcast_years, system, extrapolated,
                      extrapolate_yrs, regr_gs) :
                regr_gs \in {Linregress([i \in DOMAIN seasonal_dat.year |->
                                            FromInt(seasonal_dat.year[i])],
                                        PivotRegressand(seasonal_dat, region_idx, system))}} :
            TRUE

----------------------------------------------------------------------------
(* Specification SpecPivot: one call of _get_pivot_arr.  The trend series  *)
(* covers the years 1 .. MaxYear; the region that is not selected holds    *)
(* zeros.                                                                  *)

TrendYears == [i \in 1 .. MaxYear |-> i]

HindcastChoices == {[i \in 1 .. (MaxYear - 2) |-> i + 1], TrendYears}

ExtrapolateChoices == {None, [i \in 1 .. 3 |-> MaxYear - 2 + i]}

ObsRows == {[i \in 1 .. MaxYear |-> FromInt(f[i])] : f \in [1 .. MaxYear -> 0 .. MaxObs]}

ZeroRow == [i \in 1 .. MaxYear |-> Zero]

\* the second realisation of a model row: all zeros, or rising by one a year
SecondRealisation == {ZeroRow, [i \in 1 .. MaxYear |-> FromInt(i)]}

ModelRows == {[i \in 1 .. MaxYear |-> <<a[i], b[i]>>] : a \in ObsRows, b \in SecondRealisation}

ZeroModelRow == [i \in 1 .. MaxYear |-> <<Zero, Zero>>]

\* a two-region seasonal array with the given row at region_idx
SeasonalDat(row, other, region_idx, nreal) ==
    [year |-> TrendYears, nreal |-> nreal,
     data |-> IF region_idx = 1 THEN <<row, other>> ELSE <<other, row>>]

PivotArgsObs ==
    {[fn |-> "_get_pivot_arr", seasonal_dat |-> SeasonalDat(row, ZeroRow, r, 0), year |-> y,
      region_idx |-> r, hindcast_years |-> h, system |-> "obs",
      extrapolated |-> e, extrapolate_yrs |-> ey] :
        row \in ObsRows, r \in 1 .. 2, y \in 0 .. (MaxYear + 1), h \in HindcastChoices,
        e \in BOOLEAN, ey \in ExtrapolateChoices}

PivotArgsModel ==
    {[fn |-> "_get_pivot_arr", seasonal_dat |-> SeasonalDat(row, ZeroModelRow, r, 2), year |-> y,
      region_idx |-> r, hindcast_years |-> h, system |-> "model",
      extrapolated |-> e, extrapolate_yrs |-> ey] :
        row \in ModelRows, r \in 1 .. 2, y \in 0 .. (MaxYear + 1), h \in HindcastChoices,
        e \in BOOLEAN, ey \in ExtrapolateChoices}

InitPivot ==
    /\ pc = "start"
    /\ (args \in PivotArgsObs \/ args \in PivotArgsModel)
    /\ loc = None
    /\ ret = None

CallGetPivotArr ==
    /\ pc = "start"
    /\ args.fn = "_get_pivot_arr"
    /\ LET res == GetPivotArr(args.seasonal_dat, args.year, args.region_idx,
                              args.hindcast_years, args.system,
                              args.extrapolated, args.extrapolate_yrs)
       IN  IF IsRaised(res)
           THEN /\ pc' = "error"
                /\ ret' = res
                /\ loc' = loc
           ELSE /\ pc' = "done"
                /\ ret' = res.diff_trend
                /\ loc' = [regr_gs |-> res.regr_gs, y_point |-> res.y_point]
    /\ UNCHANGED args

NextPivot == CallGetPivotArr

SpecPivot == InitPivot /\ [][NextPivot]_vars

----------------------------------------------------------------------------
(* C8: for both trend systems, whenever the pivot year is one of the years *)
(* the returned offset array is indexed by, the offset at the pivot year   *)
(* is 0.                                                                   *)

PivotDone == pc = "done" /\ args.fn = "_get_pivot_arr"

C8_OffsetAtPivotYearIsZero ==
    PivotDone =>
        \A i \in DOMAIN ret.year : ret.year[i] = args.year => ret.data[i] = Zero

C8_Witness ==
    /\ PivotDone
    /\ args.system = "model"
    /\ args.extrapolated
    /\ loc.regr_gs.slope # Zero
    /\ \E i \in DOMAIN ret.year : ret.year[i] = args.year

----------------------------------------------------------------------------
(* C9: for system="obs" the call returns exactly one offset per year of    *)
(* hindcast_years, equal to slope * (year - pivot_year) with slope the     *)
(* least-squares slope of the selected region's seasonal means; when those *)
(* means are exactly linear with slope m the offsets are                   *)
(* m * (year - pivot_year).                                                *)

\* the least-squares slope in its sum form (n Sxy - Sx Sy) / (n Sxx - Sx Sx)
LeastSquaresSlope(xs, ys) ==
    LET n   == FromInt(Len(xs))
        sx  == Sum(xs)
        sy  == Sum(ys)
        sxy == Sum([i \in DOMAIN xs |-> Mul(xs[i], ys[i])])
        sxx == Sum([i \in DOMAIN xs |-> Mul(xs[i], xs[i])])
    IN  Div(Sub(Mul(n, sxy), Mul(sx, sy)), Sub(Mul(n, sxx), Mul(sx, sx)))

ObsSeries == args.seasonal_dat.data[args.region_idx]

ObsYearsAsNumbers == [i \in DOMAIN args.seasonal_dat.year |-> FromInt(args.seasonal_dat.year[i])]

\* the series rises by exactly m from each year to the next
IsLinearWithSlope(series, m) ==
    \A i \in 1 .. (Len(series) - 1) : Sub(series[i + 1], series[i]) = m

C9_ObsOffsetsAreSlopeTimesYearsFromPivot ==
    (PivotDone /\ args.system = "obs") =>
        /\ ret.year = args.hindcast_years
        /\ Len(ret.data) = Len(args.hindcast_years)
        /\ \A i \in DOMAIN ret.year :
              ret.data[i] = Mul(LeastSquaresSlope(ObsYearsAsNumbers, ObsSeries),
                                FromInt(ret.year[i] - args.year))
        /\ \A m \in {FromInt(k) : k \in -1 .. 1} :
              IsLinearWithSlope(ObsSeries, m) =>
                 \A i \in DOMAIN ret.year :
                    ret.data[i] = Mul(m, FromInt(ret.year[i] - args.year))

C9_Witness ==
    /\ PivotDone
    /\ args.system = "obs"
    /\ args.hindcast_years # args.seasonal_dat.year
    /\ IsLinearWithSlope(ObsSeries, FromInt(1))
    /\ args.year \notin {args.hindcast_years[i] : i \in DOMAIN args.hindcast_years}

----------------------------------------------------------------------------
(* C10: for every pivot_year supplied, whether or not it is a year of the  *)
(* trend series or of the hindcast, y0 is the fitted line evaluated at     *)
(* pivot_year, slope * pivot_year + intercept, and an offset array is      *)
(* returned.                                                               *)

PivotFinished == pc # "start" /\ args.fn = "_get_pivot_arr"

ExtrapolationArgsValid == ~(args.extrapolated /\ args.extrapolate_yrs = None)

C10_EveryPivotYearGivesOffsets ==
    (PivotFinished /\ ExtrapolationArgsValid) =>
        /\ pc = "done"
        /\ loc.y_point = Add(Mul(loc.regr_gs.slope, FromInt(args.year)), loc.regr_gs.intercept)
        /\ Len(ret.data) > 0

----------------------------------------------------------------------------
(* get_unseen_distr.  An ensemble is a record with the coordinates region  *)
(* and year, the sizes ntime and nreal of the time and realisation axes    *)
(* and the values data[region][year][time][realisation].  A trend          *)
(* reference without realisation axis (observations) has nreal = 0 and     *)
(* the values data[region][year][time].                                    *)

\* trend_data.mean("time"): the seasonal means handed to _get_pivot_arr
TimeMean(trend_data) ==
    [year |-> trend_data.year, nreal |-> trend_data.nreal,
     data |-> Eager([r \in DOMAIN trend_data.data |-> Eager([yi \in DOMAIN trend_data.year |->
                 IF trend_data.nreal = 0
                 THEN Mean(trend_data.data[r][yi])
                 ELSE Eager([k \in 1 .. trend_data.nreal |->
                         Mean([t \in 1 .. trend_data.ntime |->
                                  trend_data.data[r][yi][t][k]])])])])]

\* one mean over realisation, year and time of the region
ClimMeanOverTime(model_da, r) ==
    [t \in 1 .. model_da.ntime |->
        Mean([u \in 1 .. model_da.ntime |->
            Mean([yi \in DOMAIN model_da.year |-> Mean(model_da.data[r][yi][u])])])]

\* model_da.mean("realisation").mean("year") of one region: a value per time of season
ClimMean(model_da, r) ==
    Eager([t \in 1 .. model_da.ntime |->
        Mean([yi \in DOMAIN model_da.year |-> Mean(model_da.data[r][yi][t])])])

\* rolling mean that also averages the incomplete windows at the ends
\* of the season (min_periods = 1)
RollingMeanPartial(series, window) ==
    Eager([t \in DOMAIN series |->
        LET first == IF t - (window \div 2) < 1 THEN 1 ELSE t - (window \div 2)
            last  == IF t - (window \div 2) + window - 1 > Len(series)
                     THEN Len(series) ELSE t - (window \div 2) + window - 1
        IN  Div(Sum(SubSeq(series, first, last)), FromInt(last - first + 1))])

\* rolling(time=window, center=True).mean("time") of one series: the mean of
\* the window around each day, NaN where the window is not complete
RollingMean(series, window) ==
    Eager([t \in DOMAIN series |->
        LET first == t - (window \div 2)
            last  == first + window - 1
        IN  IF first >= 1 /\ last <= Len(series)
                 /\ \A u \in first .. last : ~IsNaN(series[u])
            THEN Div(Sum(SubSeq(series, first, last)), FromInt(window))
            ELSE NaN])

RECURSIVE MaxOf(_)
MaxOf(a) ==
    IF Len(a) = 1 THEN a[1]
    ELSE LET rest == MaxOf(Tail(a)) IN IF Leq(rest, Head(a)) THEN Head(a) ELSE rest

\* .max("time"): the largest value that is not NaN, NaN when there is none
MaxSkipNaN(a) == IF DropNaN(a) = <<>> THEN NaN ELSE MaxOf(DropNaN(a))

\* the years left by xarray's inner join of two year coordinates
JoinYears(left, right) == SelectSeq(left, LAMBDA y : IndexOf(right, y) # 0)

\* lines 107-115 stacking the maxima of the first realisation only
StackedMaximaFirstRealisation(anomaly, years, nreal, window) ==
    Eager([yi \in 1 .. Len(years) |->
        MaxSkipNaN(RollingMean(Eager([t \in DOMAIN anomaly[yi] |-> anomaly[yi][t][1]]),
                               window))])

\* lines 107-115 of one region: JJA-NMAX of every (realisation, year) and
\* the stacking into the sample axis, realisation-major
StackedMaxima(anomaly, years, nreal, window) ==
    Eager([s \in 1 .. (nreal * Len(years)) |->
        LET k  == ((s - 1) \div Len(years)) + 1
            yi == ((s - 1) % Len(years)) + 1
        IN  MaxSkipNaN(RollingMean(Eager([t \in DOMAIN anomaly[yi] |-> anomaly[yi][t][k]]),
                                   window))])

\* the sample coordinate left by stack and reset_index: (realisation, year)
SampleCoord(years, nreal) ==
    Eager([s \in 1 .. (nreal * Len(years)) |->
        [realisation |-> (s - 1) \div Len(years), year |-> years[((s - 1) % Len(years)) + 1]]])

\* lines 81-96: the offsets of every region, a list of _get_pivot_arr results
DiffTrends(model_da, trend_data, pivot_year, trend_source, extrapolated, extr_year) ==
    Eager([r \in DOMAIN model_da.region |->
        IF trend_source = "model"
        THEN GetPivotArr(TimeMean(trend_data), pivot_year, r, model_da.year,
                         "model", extrapolated, extr_year)
        ELSE GetPivotArr(TimeMean(trend_data), pivot_year, r, model_da.year,
                         "obs", FALSE, None)])

\* lines 97-100 of one region: model_da - offsets - climatological mean, on
\* the years common to the ensemble and the offsets
DetrendedAnomaly(model_da, r, diff_trend) ==
    LET years == JoinYears(model_da.year, diff_trend.year)
        clim  == ClimMean(model_da, r)
    IN  [yi \in DOMAIN years |-> [t \in 1 .. model_da.ntime |-> [k \in 1 .. model_da.nreal |->
            Sub(Sub(model_da.data[r][IndexOf(model_da.year, years[yi])][t][k],
                    diff_trend.data[IndexOf(diff_trend.year, years[yi])]),
                clim[t])]]]

\* get_unseen_distr with the climatological mean left in the data
BuildDistributionNoClim(model_da, window, diff_trends) ==
    LET years == JoinYears(model_da.year, diff_trends[1].diff_trend.year)
    IN  [region |-> model_da.region,
         sample |-> SampleCoord(years, model_da.nreal),
         data   |-> [r \in DOMAIN model_da.region |->
                       StackedMaxima(
                          [yi \in DOMAIN years |-> [t \in 1 .. model_da.ntime |->
                             [k \in 1 .. model_da.nreal |->
                                Sub(model_da.data[r][IndexOf(model_da.year, years[yi])][t][k],
                                    diff_trends[r].diff_trend.data[
                                        IndexOf(diff_trends[r].diff_trend.year, years[yi])])]]],
                          years, model_da.nreal, window)]]

\* lines 97-115: the stacked distribution of all regions
BuildDistribution(model_da, window, diff_trends) ==
    LET years == JoinYears(model_da.year, diff_trends[1].diff_trend.year)
    IN  [region |-> model_da.region,
         sample |-> SampleCoord(years, model_da.nreal),
         data   |-> Eager([r \in DOMAIN model_da.region |->
                       StackedMaxima(DetrendedAnomaly(model_da, r, diff_trends[r].diff_trend),
                                     years, model_da.nreal, window)])]

\* lines 97-117, given the list diff_trends of lines 80-96: the returned
\* pair, or the exception of the first region whose _get_pivot_arr raised
UnseenOfOffsets(model_da, extr_avg_period, diff_trends) ==
    IF \E r \in DOMAIN diff_trends : IsRaised(diff_trends[r])
    THEN diff_trends[CHOOSE r \in DOMAIN diff_trends :
                        /\ IsRaised(diff_trends[r])
                        /\ \A q \in 1 .. (r - 1) : ~IsRaised(diff_trends[q])]
    ELSE [unseen_distr |-> BuildDistribution(model_da, extr_avg_period, diff_trends),
          diff_trends  |-> [r \in DOMAIN diff_trends |-> diff_trends[r].diff_trend]]

\* get_unseen_distr: the returned pair, or the exception.  With
\* last_detrend false the name diff_trends is unbound at the return.
GetUnseenDistr(model_da, extr_avg_period, trend_data, last_detrend, pivot_year, trend_source, extrapolated, extr_year) ==
    IF extrapolated /\ extr_year = None
    THEN Raised("ValueError")
    ELSE IF ~last_detrend
    THEN Raised("UnboundLocalError")
    ELSE CHOOSE res \in
            {UnseenOfOffsets(model_da, extr_avg_period, diff_trends) :
                diff_trends \in {DiffTrends(model_da, trend_data, pivot_year, trend_source,
                                            extrapolated, extr_year)}} : TRUE

----------------------------------------------------------------------------
(* Specification SpecEndToEnd: get_unseen_distr followed by                *)
(* get_funcstrength_risk on its distribution (figure3.py, lines 94-108),   *)
(* for ensembles of 2 regions, 3 realisations, 5 years and 20 days whose   *)
(* values all equal one constant, and a focus event equal to that constant *)

ScenarioShape == [regions |-> 2, realisations |-> 3, years |-> 5, days |-> 20]

ScenarioYears == [i \in 1 .. ScenarioShape.years |-> i]

ConstantEnsemble(c) ==
    [region |-> RegionNames, year |-> ScenarioYears,
     ntime |-> ScenarioShape.days, nreal |-> ScenarioShape.realisations,
     data |-> [r \in 1 .. ScenarioShape.regions |-> [yi \in DOMAIN ScenarioYears |->
                 [t \in 1 .. ScenarioShape.days |->
                    [k \in 1 .. ScenarioShape.realisations |-> c]]]]]

\* yearly levels of an observed series over the hindcast years and one more:
\* no trend, rising, falling, and rising then falling
TrendShapes ==
    {[i \in 1 .. (ScenarioShape.years + 1) |-> Zero],
     [i \in 1 .. (ScenarioShape.years + 1) |-> FromInt(i)],
     [i \in 1 .. (ScenarioShape.years + 1) |-> FromInt(0 - i)],
     [i \in 1 .. (ScenarioShape.years + 1) |-> FromInt(IF i <= 3 THEN i ELSE 6 - i)]}

\* an observed trend reference whose days of a season all hold the year's level
ObsTrendData(levelsA, levelsB) ==
    [region |-> RegionNames, year |-> [i \in DOMAIN levelsA |-> i],
     ntime |-> ScenarioShape.days, nreal |-> 0,
     data |-> <<[yi \in DOMAIN levelsA |-> [t \in 1 .. ScenarioShape.days |-> levelsA[yi]]],
                [yi \in DOMAIN levelsB |-> [t \in 1 .. ScenarioShape.days |-> levelsB[yi]]]>>]

ConstantFocus(c) == [name \in {RegionNames[i] : i \in DOMAIN RegionNames} |-> c]

EndToEndArgsObs ==
    {[fn |-> "end_to_end", model_da |-> ConstantEnsemble(c), extr_avg_period |-> w,
      trend_data |-> ObsTrendData(la, lb), last_detrend |-> TRUE, pivot_year |-> p,
      trend_source |-> "obs", extrapolated |-> FALSE, extr_year |-> None,
      focus_event |-> ConstantFocus(c), degr_gthan |-> FromInt(1), degr_step |-> FromInt(1)] :
        c \in SampleValues, w \in {1, 14}, la \in TrendShapes,
        lb \in {[i \in 1 .. (ScenarioShape.years + 1) |-> Zero]},
        p \in {1, 3, ScenarioShape.years + 1, ScenarioShape.years + 2}}

EndToEndArgsModel ==
    {[fn |-> "end_to_end", model_da |-> ConstantEnsemble(c), extr_avg_period |-> w,
      trend_data |-> ConstantEnsemble(c), last_detrend |-> d, pivot_year |-> p,
      trend_source |-> "model", extrapolated |-> e, extr_year |-> None,
      focus_event |-> ConstantFocus(c), degr_gthan |-> FromInt(1), degr_step |-> FromInt(1)] :
        c \in SampleValues, w \in {14, 20}, d \in BOOLEAN, e \in BOOLEAN,
        p \in {1, 3, ScenarioShape.years + 1}}

InitEndToEnd ==
    /\ pc = "start"
    /\ (args \in EndToEndArgsObs \/ args \in EndToEndArgsModel)
    /\ loc = None
    /\ ret = None

\* figure3.py lines 94-100: unseen_distr, _ = un.get_unseen_distr(...)
EndToEndBuildDistribution ==
    /\ pc = "start"
    /\ args.fn = "end_to_end"
    /\ \E res \in {GetUnseenDistr(args.model_da, args.extr_avg_period, args.trend_data,
                                    args.last_detrend, args.pivot_year, args.trend_source,
                                    args.extrapolated, args.extr_year)} :
           IF IsRaised(res)
           THEN /\ pc' = "error"
                /\ ret' = res
                /\ loc' = loc
           ELSE /\ pc' = "built"
                /\ loc' = res
                /\ ret' = ret
    /\ UNCHANGED args

\* figure3.py lines 103-108: fs_risk = un.get_funcstrength_risk(unseen_distr, ...)
EndToEndRiskByStrength ==
    /\ pc = "built"
    /\ args.fn = "end_to_end"
    /\ ret' = GetFuncstrengthRisk(loc.unseen_distr, args.focus_event,
                                  args.degr_gthan, args.degr_step)
    /\ pc' = "done"
    /\ UNCHANGED <<args, loc>>

NextEndToEnd == EndToEndBuildDistribution \/ EndToEndRiskByStrength

SpecEndToEnd == InitEndToEnd /\ [][NextEndToEnd]_vars

----------------------------------------------------------------------------
(* C4: for an ensemble whose values all equal one constant C (2 regions,   *)
(* 3 realisations, 5 years, 20 days), the distribution of get_unseen_distr *)
(* scored by get_funcstrength_risk with a focus event equal to C gives     *)
(* risk 0 at increment 0 in every region.                                  *)

EndToEndDone == pc = "done" /\ args.fn = "end_to_end"

ScenarioConstant == args.model_da.data[1][1][1][1]

C4_ConstantEnsembleHasZeroRisk ==
    EndToEndDone =>
        \A r \in DOMAIN ret.risk : ret.increment[1] = Zero /\ ret.risk[r][1] = Zero

\* C4 as amended: the distribution holds the anomalies -offset(year), the
\* constant being removed as climatological mean, and the risk at increment
\* 0 is 0 in a region exactly when C >= -offset(year) for all its years.
NegatedOffsets(r) == [i \in DOMAIN loc.diff_trends[r].data |-> Sub(Zero, loc.diff_trends[r].data[i])]

C4_ZeroRiskWhenConstantExceedsAnomalies ==
    EndToEndDone =>
        \A r \in DOMAIN ret.risk :
            /\ ret.increment[1] = Zero
            /\ \A s \in DOMAIN loc.unseen_distr.data[r] :
                  \E i \in DOMAIN NegatedOffsets(r) :
                     loc.unseen_distr.data[r][s] = NegatedOffsets(r)[i]
            /\ (\A i \in DOMAIN NegatedOffsets(r) : Leq(NegatedOffsets(r)[i], ScenarioConstant))
                  <=> ret.risk[r][1] = Zero

C4_Witness ==
    /\ EndToEndDone
    /\ Lt(Zero, ScenarioConstant)
    /\ ret.risk[1][1] = Zero
    /\ \E i \in DOMAIN NegatedOffsets(1) : NegatedOffsets(1)[i] = ScenarioConstant
    /\ \E i \in DOMAIN NegatedOffsets(1) : Lt(NegatedOffsets(1)[i], Zero)

----------------------------------------------------------------------------
(* get_ft_perc_low_high: calc_bootstrap_quantiles runs one resample per    *)
(* step, first for the core pivot years and then, when extrapolated, for   *)
(* the extrapolation years                                                 *)

\* lines 304-315 with the offsets of the pivot year left in the data
PivotAnomalyNoOffsets(model_da, r, dtrend) ==
    LET clim == ClimMean(model_da, r)
    IN  [yi \in DOMAIN model_da.year |-> [t \in 1 .. model_da.ntime |->
            [k \in 1 .. model_da.nreal |-> Sub(model_da.data[r][yi][t][k], clim[t])]]]

\* lines 304-315 of one pivot year: model_da.isel(region) - dtrend - climatological mean
PivotAnomaly(model_da, r, dtrend) ==
    LET clim == ClimMean(model_da, r)
    IN  [yi \in DOMAIN model_da.year |-> [t \in 1 .. model_da.ntime |->
            [k \in 1 .. model_da.nreal |->
                Sub(Sub(model_da.data[r][yi][t][k],
                        dtrend.data[IndexOf(dtrend.year, model_da.year[yi])]),
                    clim[t])]]]

\* lines 304-322 of one region, given the list diff_trends of lines 292-303:
\* the stacked samples arr of the pivot years, or the exception of
\* _get_pivot_arr or of the DataArray constructor (offsets that do not cover
\* the years of the ensemble give an array of another shape)
FtSamplesOfOffsets(model_da, window, pivot_years, r, diff_trends) ==
    IF \E p \in DOMAIN diff_trends : IsRaised(diff_trends[p])
    THEN diff_trends[CHOOSE p \in DOMAIN diff_trends :
                        /\ IsRaised(diff_trends[p])
                        /\ \A q \in 1 .. (p - 1) : ~IsRaised(diff_trends[q])]
    ELSE IF \E yi \in DOMAIN model_da.year :
               IndexOf(diff_trends[1].diff_trend.year, model_da.year[yi]) = 0
    THEN Raised("ValueError")
    ELSE [arr |-> Eager([p \in DOMAIN pivot_years |->
                    StackedMaxima(PivotAnomaly(model_da, r, diff_trends[p].diff_trend),
                                  model_da.year, model_da.nreal, window)])]

\* lines 292-322 of one region: the offsets of every pivot year, then the samples
FtRegionSamples(model_da, trend_data, window, pivot_years, system, extrapolated, extrapolate_yrs, r) ==
    CHOOSE samples \in
        {FtSamplesOfOffsets(model_da, window, pivot_years, r, diff_trends) :
            diff_trends \in
                {Eager([p \in DOMAIN pivot_years |->
                     GetPivotArr(TimeMean(trend_data), pivot_years[p], r, model_da.year,
                                 system, extrapolated, extrapolate_yrs)])}} : TRUE

\* the locals of calc_bootstrap_quantiles on entering region r_idx
\* locals that hold a statistic before any resample was drawn
FtRegionLocalsOneStatisticAhead(phase, pivot_years, r_idx, samples, risks_bootstrapped, core) ==
    [phase |-> phase, pivot_years |-> pivot_years, r_idx |-> r_idx, p_idx |-> 1, draws |-> 0,
     probs_tmp |-> <<Zero>>, probs_years |-> <<>>, risks_bootstrapped |-> risks_bootstrapped,
     random_sample |-> <<>>, samples |-> samples, core |-> core]

FtRegionLocals(phase, pivot_years, r_idx, samples, risks_bootstrapped, core) ==
    [phase |-> phase, pivot_years |-> pivot_years, r_idx |-> r_idx, p_idx |-> 1, draws |-> 0,
     probs_tmp |-> <<>>, probs_years |-> <<>>, risks_bootstrapped |-> risks_bootstrapped,
     random_sample |-> <<>>, samples |-> samples, core |-> core]

\* lines 342-346 and 288-322: the core call of calc_bootstrap_quantiles up to
\* the first resample
FtEnter ==
    /\ pc = "start"
    /\ args.fn = "get_ft_perc_low_high"
    /\ \E samples \in {FtRegionSamples(args.model_da, args.trend_data, args.extr_avg_period,
                                         args.core_pivot_yrs, args.trend_source, FALSE, None,
                                         1)} :
           IF IsRaised(samples)
           THEN /\ pc' = "error"
                /\ ret' = samples
                /\ loc' = loc
           ELSE /\ pc' = "ft_draw"
                /\ loc' = FtRegionLocals("core", args.core_pivot_yrs, 1, samples.arr, <<>>, None)
                /\ ret' = ret
    /\ UNCHANGED args

\* lines 326-327: random_sample = arr[random_idxs]
FtResample(a, random_idxs) == Take(a, random_idxs)

\* line 328: prob = _calc_percentile(random_sample, x)
FtStatistic(random_sample, x) == CalcPercentile(random_sample, x)

\* the system, extrapolated and extrapolate_yrs arguments of the running phase
FtSystem == IF loc.phase = "core" THEN args.trend_source ELSE "model"

\* lines 325-331: one iteration of the innermost loop, the appends and loop
\* advances that follow it, and lines 289-322 for the region entered next
FtDraw ==
    /\ pc = "ft_draw"
    /\ LET arr == loc.samples[loc.p_idx]
           x   == args.focus_event[args.model_da.region[loc.r_idx]]
       IN  \E random_idxs \in RandintDraws(Len(arr), Len(arr)) :
             LET random_sample == FtResample(arr, random_idxs)
                 prob          == FtStatistic(random_sample, x)
                 probs_tmp     == Append(loc.probs_tmp, prob)
                 probs_years   == Append(loc.probs_years, probs_tmp)
                 risks         == Append(loc.risks_bootstrapped, probs_years)
                 drawn         == [loc EXCEPT !.random_sample = random_sample,
                                              !.draws = loc.draws + 1]
             IN  IF Len(probs_tmp) < args.n_iterations
                 THEN /\ loc' = [drawn EXCEPT !.probs_tmp = probs_tmp]
                      /\ pc' = "ft_draw"
                      /\ ret' = ret
                 ELSE IF loc.p_idx < Len(loc.pivot_years)
                 THEN /\ loc' = [drawn EXCEPT !.probs_tmp = <<>>, !.probs_years = probs_years,
                                              !.p_idx = loc.p_idx + 1]
                      /\ pc' = "ft_draw"
                      /\ ret' = ret
                 ELSE IF loc.r_idx < Len(args.model_da.region)
                 THEN \E next_samples \in
                            {FtRegionSamples(args.model_da, args.trend_data,
                                 args.extr_avg_period, loc.pivot_years, FtSystem,
                                 loc.phase # "core",
                                 IF loc.phase = "core" THEN None ELSE args.extrapolate_yrs,
                                 loc.r_idx + 1)} :
                        IF IsRaised(next_samples)
                        THEN /\ loc' = drawn
                             /\ pc' = "error"
                             /\ ret' = next_samples
                        ELSE /\ loc' = [drawn EXCEPT !.probs_tmp = <<>>, !.probs_years = <<>>,
                                           !.risks_bootstrapped = risks, !.p_idx = 1,
                                           !.r_idx = loc.r_idx + 1,
                                           !.samples = next_samples.arr]
                             /\ pc' = "ft_draw"
                             /\ ret' = ret
                 ELSE /\ loc' = [drawn EXCEPT !.probs_tmp = <<>>, !.probs_years = <<>>,
                                    !.risks_bootstrapped = risks]
                      /\ pc' = "ft_quantile"
                      /\ ret' = ret
    /\ UNCHANGED args

\* lines 333-340 of the running phase, then lines 348-364: return after the
\* core phase unless extrapolated, raise when the extrapolation years are
\* missing, else run calc_bootstrap_quantiles for the extrapolation years
FtQuantiles ==
    /\ pc = "ft_quantile"
    /\ \E bounds \in {BootstrapBounds(loc.risks_bootstrapped)} :
           IF loc.phase = "core" /\ args.extrapolated
           THEN IF args.extrapolate_yrs = None
                THEN /\ pc' = "error"
                     /\ ret' = Raised("ValueError")
                     /\ loc' = loc
                ELSE \E samples \in
                        {FtRegionSamples(args.model_da, args.trend_data, args.extr_avg_period,
                                         args.extrapolate_yrs, "model", TRUE,
                                         args.extrapolate_yrs, 1)} :
                       IF IsRaised(samples)
                       THEN /\ pc' = "error"
                            /\ ret' = samples
                            /\ loc' = loc
                       ELSE /\ pc' = "ft_draw"
                            /\ loc' = FtRegionLocals("extrapolated", args.extrapolate_yrs, 1,
                                            samples.arr, <<>>,
                                            [bounds |-> bounds,
                                             risks_bootstrapped |-> loc.risks_bootstrapped])
                            /\ ret' = ret
           ELSE IF loc.phase = "core"
           THEN /\ pc' = "done"
                /\ ret' = [year |-> args.core_pivot_yrs, bounds |-> bounds,
                           year_extrapolated |-> None, bounds_extrapolated |-> None]
                /\ loc' = loc
           ELSE /\ pc' = "done"
                /\ ret' = [year |-> args.core_pivot_yrs, bounds |-> loc.core.bounds,
                           year_extrapolated |-> args.extrapolate_yrs,
                           bounds_extrapolated |-> bounds]
                /\ loc' = loc
    /\ UNCHANGED args

----------------------------------------------------------------------------
(* bootstrap_pseudo_timeseries of figure2.py: one pseudo-timeseries of     *)
(* n_years values per step                                                 *)

\* figure2.py lines 98-99: the first region is entered with an empty list
PseudoEnter ==
    /\ pc = "start"
    /\ args.fn = "bootstrap_pseudo_timeseries"
    /\ loc' = [r_idx |-> 1, draws |-> 0, ts_tmp |-> <<>>, pseudo_timeseries |-> <<>>,
               random_sample |-> <<>>]
    /\ pc' = "pseudo_draw"
    /\ UNCHANGED <<args, ret>>

\* figure2.py line 102: np.random.choice(sample, n_years, replace=True)
PseudoResample(a, size, random_idxs) == Take(a, random_idxs)

\* figure2.py lines 99-105: one element of the list comprehension, and the
\* append and region advance after the last one
PseudoDraw ==
    /\ pc = "pseudo_draw"
    /\ LET arr == args.unseen_distr.data[loc.r_idx]
       IN  \E random_idxs \in RandintDraws(Len(arr), args.n_years) :
             LET random_sample == PseudoResample(arr, args.n_years, random_idxs)
                 ts_tmp        == Append(loc.ts_tmp, random_sample)
                 drawn         == [loc EXCEPT !.random_sample = random_sample,
                                              !.draws = loc.draws + 1]
             IN  IF Len(ts_tmp) < args.n_iterations
                 THEN /\ loc' = [drawn EXCEPT !.ts_tmp = ts_tmp]
                      /\ pc' = "pseudo_draw"
                 ELSE IF loc.r_idx < Len(args.unseen_distr.region)
                 THEN /\ loc' = [drawn EXCEPT !.ts_tmp = <<>>,
                                    !.pseudo_timeseries = Append(@, ts_tmp),
                                    !.r_idx = loc.r_idx + 1]
                      /\ pc' = "pseudo_draw"
                 ELSE /\ loc' = [drawn EXCEPT !.ts_tmp = <<>>,
                                    !.pseudo_timeseries = Append(@, ts_tmp)]
                      /\ pc' = "pseudo_return"
    /\ UNCHANGED <<args, ret>>

\* figure2.py lines 107-116: the labelled array (region, iteration, year)
PseudoReturn ==
    /\ pc = "pseudo_return"
    /\ ret' = [region |-> args.unseen_distr.region,
               iteration |-> [i \in 1 .. args.n_iterations |-> i],
               year |-> [i \in 1 .. args.n_years |-> i],
               data |-> loc.pseudo_timeseries]
    /\ pc' = "done"
    /\ UNCHANGED <<args, loc>>

----------------------------------------------------------------------------
(* Specification SpecBoot: one call of one of the three flat bootstraps,   *)
(* get_fs_perc_low_high, get_ft_perc_low_high or figure2.py's              *)
(* bootstrap_pseudo_timeseries.  The ensembles have two regions, the years *)
(* 1 and 2, two days and one realisation; the first region holds a yearly  *)
(* level plus the daily profile 0, 1, the second zeros.                    *)

BootYears == <<1, 2>>

BootLevels == {<<Zero, Zero>>, <<Zero, FromInt(1)>>, <<FromInt(1), Zero>>}

BootProfile == <<Zero, FromInt(1)>>

BootEnsemble(levels) ==
    [region |-> RegionNames, year |-> BootYears, ntime |-> 2, nreal |-> 1,
     data |-> <<[yi \in 1 .. 2 |-> [t \in 1 .. 2 |-> <<Add(levels[yi], BootProfile[t])>>]],
                [yi \in 1 .. 2 |-> [t \in 1 .. 2 |-> <<Zero>>]]>>]

BootEnsembles == {BootEnsemble(l) : l \in BootLevels}

\* the ensemble whose years do not differ
FlatEnsembles == {BootEnsemble(<<Zero, Zero>>)}

\* observed trend references over the years 1 .. 3, rising by a slope a year
BootObsTrends(slopes) ==
    {[region |-> RegionNames, year |-> <<1, 2, 3>>, ntime |-> 2, nreal |-> 0,
      data |-> <<[yi \in 1 .. 3 |-> [t \in 1 .. 2 |-> FromInt(m * yi)]],
                 [yi \in 1 .. 3 |-> [t \in 1 .. 2 |-> Zero]]>>] : m \in slopes}

\* the extrapolation years of the calls that pass them: the last year of the
\* observed trend reference and the year after it
BootExtrapolateYears == <<3, 4>>

\* the calls of one trend source with one choice of the extrapolation arguments
FtBootArgs(ensembles, trend_source, trends, extrapolated, extrapolate_yrs, pivots) ==
    {[fn |-> "get_ft_perc_low_high", model_da |-> m,
      trend_data |-> IF trend_source = "model" THEN m ELSE td,
      extr_avg_period |-> w, focus_event |-> f, n_iterations |-> n, core_pivot_yrs |-> cp,
      trend_source |-> trend_source, extrapolated |-> extrapolated,
      extrapolate_yrs |-> extrapolate_yrs] :
        m \in ensembles, td \in trends, w \in 1 .. 2, f \in BootFocusChoices,
        n \in 1 .. MaxIter, cp \in pivots}

InitFtBoot ==
    /\ pc = "start"
    /\ \/ args \in FtBootArgs(BootEnsembles, "obs", BootObsTrends({0, 1}), FALSE, None,
                               {<<2>>, <<1, 3>>})
       \/ args \in FtBootArgs(FlatEnsembles, "obs", BootObsTrends({0}), TRUE, None,
                               {<<2>>, <<1, 3>>})
       \/ args \in FtBootArgs(FlatEnsembles, "obs", BootObsTrends({0}), TRUE,
                               BootExtrapolateYears, {<<2>>, <<1, 3>>})
       \/ args \in FtBootArgs(BootEnsembles, "model", {None}, FALSE, None, {<<2>>, <<1, 3>>})
       \/ args \in FtBootArgs(FlatEnsembles, "model", {None}, TRUE, BootExtrapolateYears,
                               {<<2>>})
    /\ loc = None
    /\ ret = None

InitPseudo ==
    /\ pc = "start"
    /\ args \in {[fn |-> "bootstrap_pseudo_timeseries", unseen_distr |-> u,
                  n_iterations |-> n, n_years |-> ny] :
                    u \in DistrChoices(BootValues, 2), n \in 1 .. MaxIter, ny \in {1, 3}}
    /\ loc = None
    /\ ret = None

InitBoot == InitFsBoot \/ InitFtBoot \/ InitPseudo

NextBoot ==
    \/ FsEnter \/ FsDraw \/ FsQuantiles
    \/ FtEnter \/ FtDraw \/ FtQuantiles
    \/ PseudoEnter \/ PseudoDraw \/ PseudoReturn

SpecBoot == InitBoot /\ [][NextBoot]_vars

----------------------------------------------------------------------------
(* C5: for every non-empty distribution, every n_iterations >= 1 and every *)
(* sequence of random draws, the bounds returned by get_fs_perc_low_high   *)
(* and get_ft_perc_low_high satisfy 0 <= low <= high <= 100 at every       *)
(* (region, grid point), the grid point being an increment or a pivot year *)

FsBootDone == pc = "done" /\ args.fn = "get_fs_perc_low_high"

FtBootDone == pc = "done" /\ args.fn = "get_ft_perc_low_high"

BoundsOrdered(bounds) ==
    \A r \in DOMAIN bounds : \A g \in DOMAIN bounds[r] :
        /\ Leq(Zero, bounds[r][g].low)
        /\ Leq(bounds[r][g].low, bounds[r][g].high)
        /\ Leq(bounds[r][g].high, Hundred)

C5_BoundsOrderedWithinPercentRange ==
    /\ FsBootDone => BoundsOrdered(ret.bounds)
    /\ FtBootDone => BoundsOrdered(ret.bounds)
    /\ (FtBootDone /\ args.extrapolated) => BoundsOrdered(ret.bounds_extrapolated)

C5_Witness ==
    /\ FtBootDone
    /\ \E r \in DOMAIN ret.bounds : \E g \in DOMAIN ret.bounds[r] :
          /\ Lt(Zero, ret.bounds[r][g].low)
          /\ Lt(ret.bounds[r][g].low, ret.bounds[r][g].high)
          /\ Lt(ret.bounds[r][g].high, Hundred)

----------------------------------------------------------------------------
(* C6: with n_iterations = 1 the lower bound equals the upper bound at     *)
(* every (region, grid point), and both equal the exceedance statistic of  *)
(* the single resample drawn for that grid point: every draw records the   *)
(* exceedance share of the resample it drew, scored against the threshold  *)
(* of its grid point, and the returned bounds are that recorded value.     *)

\* the statistic get_fs_perc_low_high holds for iteration i of (region r, increment g)
FsRecorded(l, r, g, i) ==
    IF r <= Len(l.risks_bootstrapped) THEN l.risks_bootstrapped[r][g][i]
    ELSE IF g <= Len(l.risks_incre) THEN l.risks_incre[g][i]
    ELSE l.risk_tmp[i]

\* the statistic calc_bootstrap_quantiles holds for iteration i of (region r, pivot year p)
FtRecorded(l, r, p, i) ==
    IF r <= Len(l.risks_bootstrapped) THEN l.risks_bootstrapped[r][p][i]
    ELSE IF p <= Len(l.probs_years) THEN l.probs_years[p][i]
    ELSE l.probs_tmp[i]

DegenerateAt(bounds, risks) ==
    \A r \in DOMAIN bounds : \A g \in DOMAIN bounds[r] :
        /\ bounds[r][g].low = bounds[r][g].high
        /\ bounds[r][g].low = risks[r][g][1]

SingleIterationBoundsAreTheStatistic ==
    /\ (FsBootDone /\ args.n_iterations = 1) =>
          DegenerateAt(ret.bounds, loc.risks_bootstrapped)
    /\ (FtBootDone /\ args.n_iterations = 1 /\ ~args.extrapolated) =>
          DegenerateAt(ret.bounds, loc.risks_bootstrapped)
    /\ (FtBootDone /\ args.n_iterations = 1 /\ args.extrapolated) =>
          /\ DegenerateAt(ret.bounds, loc.core.risks_bootstrapped)
          /\ DegenerateAt(ret.bounds_extrapolated, loc.risks_bootstrapped)

DrawRecordsStatisticOfItsResample ==
    /\ pc = "fs_draw" =>
          /\ loc'.random_sample \in
                {Take(args.unseen_distr.data[loc.r_idx], idxs) :
                    idxs \in RandintDraws(Len(args.unseen_distr.data[loc.r_idx]),
                                          Len(args.unseen_distr.data[loc.r_idx]))}
          /\ FsRecorded(loc', loc.r_idx, loc.ii, Len(loc.risk_tmp) + 1) =
                CalcPercentile(loc'.random_sample,
                    Add(args.focus_event[args.unseen_distr.region[loc.r_idx]],
                        loc.increments[loc.ii]))
    /\ pc = "ft_draw" =>
          /\ loc'.random_sample \in
                {Take(loc.samples[loc.p_idx], idxs) :
                    idxs \in RandintDraws(Len(loc.samples[loc.p_idx]),
                                          Len(loc.samples[loc.p_idx]))}
          /\ FtRecorded(loc', loc.r_idx, loc.p_idx, Len(loc.probs_tmp) + 1) =
                CalcPercentile(loc'.random_sample,
                               args.focus_event[args.model_da.region[loc.r_idx]])

C6_SingleIterationIntervalIsDegenerate ==
    /\ []SingleIterationBoundsAreTheStatistic
    /\ [][DrawRecordsStatisticOfItsResample]_vars

C6_Witness ==
    /\ FsBootDone
    /\ args.n_iterations = 1
    /\ \E r \in DOMAIN ret.bounds : \E g, h \in DOMAIN ret.bounds[r] :
          /\ ret.bounds[r][g].low = ret.bounds[r][g].high
          /\ Lt(Zero, ret.bounds[r][g].low)
          /\ Lt(ret.bounds[r][h].low, ret.bounds[r][g].low)

----------------------------------------------------------------------------
(* C7: in every flat bootstrap (risk bounds by strength, risk bounds by    *)
(* time, and the pseudo-timeseries bootstrap of the pooled distribution)   *)
(* each resample is drawn with replacement from the input sample, holds    *)
(* only values of the input sample, and has exactly as many values as the  *)
(* input sample.                                                           *)

Values(a) == {a[i] : i \in DOMAIN a}

\* the sample the running draw step resamples
InputSample ==
    IF pc = "ft_draw" THEN loc.samples[loc.p_idx] ELSE args.unseen_distr.data[loc.r_idx]

Drawing == pc \in {"fs_draw", "ft_draw", "pseudo_draw"}

ResampleHasSizeOfInput ==
    Drawing =>
        /\ Values(loc'.random_sample) \subseteq Values(InputSample)
        /\ Len(loc'.random_sample) = Len(InputSample)

C7_EveryResampleHasSizeOfInput == [][ResampleHasSizeOfInput]_vars

(* C7 as the code has it: the resamples of the two risk bootstraps have    *)
(* the size of the input sample; a pseudo-timeseries of                    *)
(* bootstrap_pseudo_timeseries has n_years values, whatever the size of    *)
(* the pooled distribution; every resample holds only values of the input  *)
(* sample, repeated or not.                                                *)
ResampleSizes ==
    Drawing =>
        /\ Values(loc'.random_sample) \subseteq Values(InputSample)
        /\ Len(loc'.random_sample) =
              IF pc = "pseudo_draw" THEN args.n_years ELSE Len(InputSample)

C7_ResampleSizeIsInputSizeOrYears == [][ResampleSizes]_vars

\* a pseudo-timeseries longer than the distribution it is drawn from, and
\* so repeating a value
C7_Witness ==
    /\ args.fn = "bootstrap_pseudo_timeseries"
    /\ pc = "pseudo_draw"
    /\ loc.draws = 1
    /\ Len(loc.random_sample) = args.n_years
    /\ Len(args.unseen_distr.data[1]) = 2
    /\ Values(loc.random_sample) = Values(args.unseen_distr.data[1])
    /\ args.n_years > Len(args.unseen_distr.data[1])

----------------------------------------------------------------------------
(* C11: for system="model" with extrapolated=True the offsets returned by  *)
(* _get_pivot_arr are the fitted regression evaluated at the provided      *)
(* future years minus y0: one entry per provided future year,              *)
(* trend(future_year) - y0.                                                *)

ModelExtrapolatedDone == PivotDone /\ args.system = "model" /\ args.extrapolated

\* the series the model regression is fitted to: the realisation means
ModelSeries ==
    [i \in DOMAIN args.seasonal_dat.year |->
        Mean(args.seasonal_dat.data[args.region_idx][i])]

ModelSlope == LeastSquaresSlope(ObsYearsAsNumbers, ModelSeries)

C11_OffsetsAreLabelledByFutureYears ==
    ModelExtrapolatedDone =>
        /\ ret.year = args.extrapolate_yrs
        /\ \A i \in DOMAIN ret.year :
              ret.data[i] = Mul(ModelSlope, FromInt(args.extrapolate_yrs[i] - args.year))

(* C11 as the code has it: the regression is evaluated at the future years *)
(* only to read y0 at the pivot year, which has to be one of them; the     *)
(* returned offsets have one entry per year of the trend series            *)
(* (seasonal_dat), trend(year) - y0 = slope * (year - pivot_year).         *)
C11_OffsetsAreLabelledByTrendYears ==
    ModelExtrapolatedDone =>
        /\ args.year \in {args.extrapolate_yrs[i] : i \in DOMAIN args.extrapolate_yrs}
        /\ ret.year = args.seasonal_dat.year
        /\ Len(ret.data) = Len(args.seasonal_dat.year)
        /\ \A i \in DOMAIN ret.year :
              ret.data[i] = Mul(ModelSlope, FromInt(args.seasonal_dat.year[i] - args.year))

C11_Witness ==
    /\ ModelExtrapolatedDone
    /\ ModelSlope # Zero
    /\ args.year \notin {args.seasonal_dat.year[i] : i \in DOMAIN args.seasonal_dat.year}
    /\ args.hindcast_years # args.seasonal_dat.year
    /\ ret.year # args.extrapolate_yrs

----------------------------------------------------------------------------
(* get_functime_risk *)

\* lines 238-243: the risks of the samples of every region, or the exception
\* of the first region that raised
RisksOfSamples(model_da, focus_event, pivot_years, samples) ==
    IF \E r \in DOMAIN samples : IsRaised(samples[r])
    THEN samples[CHOOSE r \in DOMAIN samples :
                    /\ IsRaised(samples[r])
                    /\ \A q \in 1 .. (r - 1) : ~IsRaised(samples[q])]
    ELSE [year |-> pivot_years,
          data |-> Eager([r \in DOMAIN model_da.region |->
                      Eager([p \in DOMAIN pivot_years |->
                          CalcPercentile(samples[r].arr[p],
                                         focus_event[model_da.region[r]])])])]

\* lines 203-245: calc_risks, the risk of every (region, pivot year)
CalcRisks(model_da, trend_data, window, focus_event, pivot_years, system, extrapolated, extrapolate_yrs) ==
    CHOOSE risks \in
        {RisksOfSamples(model_da, focus_event, pivot_years, samples) :
            samples \in {Eager([r \in DOMAIN model_da.region |->
                            FtRegionSamples(model_da, trend_data, window, pivot_years,
                                            system, extrapolated, extrapolate_yrs, r)])}} : TRUE

\* line 264 returning the core risks in both places
FunctimeReturnCoreTwice(risks, risks_extrapolated) ==
    [risks |-> risks, risks_extrapolated |-> risks]

\* line 264: return risks, risks_extrapolated
FunctimeReturn(risks, risks_extrapolated) ==
    [risks |-> risks, risks_extrapolated |-> risks_extrapolated]

\* lines 247-264: the core period first, then the check of the extrapolation
\* arguments, then the extrapolated period with the "model" system
\* a call that tests its arguments before the core period is computed
CallGetFunctimeRiskChecksFirst ==
    /\ pc = "start"
    /\ args.fn = "get_functime_risk"
    /\ IF args.extrapolated /\ args.extrapolate_yrs = None
       THEN pc' = "error" /\ ret' = Raised("ValueError")
       ELSE \E risks \in {CalcRisks(args.model_da, args.trend_data, args.extr_avg_period,
                                    args.focus_event, args.core_pivot_yrs, args.trend_source,
                                    FALSE, None)} :
              IF IsRaised(risks)
              THEN pc' = "error" /\ ret' = risks
              ELSE IF ~args.extrapolated
              THEN pc' = "done" /\ ret' = FunctimeReturn(risks, None)
              ELSE \E risks_extrapolated \in
                          {CalcRisks(args.model_da, args.trend_data, args.extr_avg_period,
                                     args.focus_event, args.extrapolate_yrs, "model", TRUE,
                                     args.extrapolate_yrs)} :
                      IF IsRaised(risks_extrapolated)
                      THEN pc' = "error" /\ ret' = risks_extrapolated
                      ELSE /\ pc' = "done"
                           /\ ret' = FunctimeReturn(risks, risks_extrapolated)
    /\ UNCHANGED <<args, loc>>

CallGetFunctimeRisk ==
    /\ pc = "start"
    /\ args.fn = "get_functime_risk"
    /\ \E risks \in {CalcRisks(args.model_da, args.trend_data, args.extr_avg_period,
                               args.focus_event, args.core_pivot_yrs, args.trend_source,
                               FALSE, None)} :
          IF IsRaised(risks)
          THEN pc' = "error" /\ ret' = risks
          ELSE IF ~args.extrapolated
          THEN pc' = "done" /\ ret' = FunctimeReturn(risks, None)
          ELSE IF args.extrapolate_yrs = None
          THEN pc' = "error" /\ ret' = Raised("ValueError")
          ELSE \E risks_extrapolated \in
                      {CalcRisks(args.model_da, args.trend_data, args.extr_avg_period,
                                 args.focus_event, args.extrapolate_yrs, "model", TRUE,
                                 args.extrapolate_yrs)} :
                  IF IsRaised(risks_extrapolated)
                  THEN pc' = "error" /\ ret' = risks_extrapolated
                  ELSE /\ pc' = "done"
                       /\ ret' = FunctimeReturn(risks, risks_extrapolated)
    /\ UNCHANGED <<args, loc>>

----------------------------------------------------------------------------
(* Specifications SpecDistr and SpecTime: one call of get_unseen_distr,    *)
(* or one of get_functime_risk, on an ensemble of two regions, the years   *)
(* 1 .. 3, three days and two realisations.  The first region holds a      *)
(* yearly level, its second realisation a daily profile and a yearly       *)
(* spread on top; the second region holds zeros.  SpecTime also runs the   *)
(* calls of get_ft_perc_low_high of SpecBoot.                              *)

TimeYears == <<1, 2, 3>>

TimeLevels == {<<0, 0, 0>>, <<0, 1, 0>>, <<0, 1, 2>>}

TimeProfiles == {<<0, 0, 0>>, <<0, 1, 0>>, <<2, 0, 1>>, <<0, 0, 2>>}

TimeSpreads == {<<0, 0, 0>>, <<1, 0, 0>>}

TimeEnsemble(years, levels, profile, spread) ==
    [region |-> RegionNames, year |-> years, ntime |-> 3, nreal |-> 2,
     data |-> <<[yi \in DOMAIN years |-> [t \in 1 .. 3 |->
                    <<FromInt(levels[yi]),
                      FromInt(levels[yi] + profile[t] + spread[yi])>>]],
                [yi \in DOMAIN years |-> [t \in 1 .. 3 |-> <<Zero, Zero>>]]>>]

TimeEnsembles ==
    {TimeEnsemble(TimeYears, l, pr, sp) :
        l \in TimeLevels, pr \in TimeProfiles, sp \in TimeSpreads}

\* observed trend references over the years 1 .. 4, rising by a slope a year
TimeObsTrends ==
    {[region |-> RegionNames, year |-> <<1, 2, 3, 4>>, ntime |-> 3, nreal |-> 0,
      data |-> <<[yi \in 1 .. 4 |-> [t \in 1 .. 3 |-> FromInt(m * yi)]],
                 [yi \in 1 .. 4 |-> [t \in 1 .. 3 |-> Zero]]>>] : m \in 0 .. 1}

\* the trend reference of a call: the observations, or for the "model"
\* source the ensemble itself
TimeTrendData(trend_source, model_da, obs) == IF trend_source = "model" THEN model_da ELSE obs

TimeExtrapolateYears == <<3, 4>>

UnseenArgs(trend_source, extrapolated, extr_year) ==
    {[fn |-> "get_unseen_distr", model_da |-> m, extr_avg_period |-> w,
      trend_data |-> TimeTrendData(trend_source, m, td), last_detrend |-> d,
      pivot_year |-> p, trend_source |-> trend_source, extrapolated |-> extrapolated,
      extr_year |-> extr_year] :
        m \in TimeEnsembles, w \in 1 .. 3, td \in TimeObsTrends, d \in BOOLEAN,
        p \in {1, 3, 4}}

FunctimeArgs(trend_source, extrapolated, extrapolate_yrs) ==
    {[fn |-> "get_functime_risk", model_da |-> m, trend_data |-> TimeTrendData(trend_source, m, td),
      extr_avg_period |-> w, focus_event |-> f, core_pivot_yrs |-> cp,
      trend_source |-> trend_source, extrapolated |-> extrapolated,
      extrapolate_yrs |-> extrapolate_yrs] :
        m \in TimeEnsembles, td \in TimeObsTrends, w \in 1 .. 3, f \in BootFocusChoices,
        cp \in {<<1, 3>>, <<2, 4>>}}

InitDistr ==
    /\ pc = "start"
    /\ \/ args \in UnseenArgs("obs", FALSE, None)
       \/ args \in UnseenArgs("obs", TRUE, None)
       \/ args \in UnseenArgs("model", FALSE, None)
       \/ args \in UnseenArgs("model", TRUE, None)
       \/ args \in UnseenArgs("model", TRUE, TimeExtrapolateYears)
    /\ loc = None
    /\ ret = None

CallGetUnseenDistr ==
    /\ pc = "start"
    /\ args.fn = "get_unseen_distr"
    /\ \E res \in {GetUnseenDistr(args.model_da, args.extr_avg_period, args.trend_data,
                                  args.last_detrend, args.pivot_year, args.trend_source,
                                  args.extrapolated, args.extr_year)} :
          /\ pc' = IF IsRaised(res) THEN "error" ELSE "done"
          /\ ret' = res
    /\ UNCHANGED <<args, loc>>

NextDistr == CallGetUnseenDistr

SpecDistr == InitDistr /\ [][NextDistr]_vars

\* the same dataset with its regions stored in the other order
ReorderRegions(da) ==
    [da EXCEPT !.region = <<da.region[2], da.region[1]>>,
               !.data = <<da.data[2], da.data[1]>>]

InitTime ==
    /\ pc = "start"
    /\ \/ args \in FunctimeArgs("obs", FALSE, None)
       \/ args \in {[a EXCEPT !.trend_data = ReorderRegions(a.trend_data)] :
                        a \in FunctimeArgs("obs", FALSE, None)}
       \/ args \in FunctimeArgs("obs", TRUE, None)
       \/ args \in FunctimeArgs("model", FALSE, None)
       \/ args \in FunctimeArgs("model", TRUE, None)
       \/ args \in FunctimeArgs("model", TRUE, TimeExtrapolateYears)
    /\ loc = None
    /\ ret = None

NextTime == CallGetFunctimeRisk \/ FtEnter \/ FtDraw \/ FtQuantiles

SpecTime == (InitTime \/ InitFtBoot) /\ [][NextTime]_vars

----------------------------------------------------------------------------
(* C12: whenever extrapolated = True and no extrapolation years are        *)
(* supplied, the call ends with a ValueError and returns no result, for    *)
(* either trend system (stated for get_functime_risk and                   *)
(* get_ft_perc_low_high, where the core period is computed before the      *)
(* arguments are checked)                                                  *)

FunctimeEnded ==
    /\ pc \in {"done", "error"}
    /\ args.fn \in {"get_functime_risk", "get_ft_perc_low_high"}

MissingExtrapolationYears == args.extrapolated /\ args.extrapolate_yrs = None

C12_MissingExtrapolationYearsEndInValueError ==
    (FunctimeEnded /\ MissingExtrapolationYears) =>
        (pc = "error" /\ ret = Raised("ValueError"))

----------------------------------------------------------------------------
(* C13: get_unseen_distr called with last_detrend = False completes and    *)
(* returns the pair (distribution, offsets), the distribution being that   *)
(* of the raw ensemble with only the ensemble-and-year mean removed        *)

UnseenEnded == pc # "start" /\ args.fn = "get_unseen_distr"

UnseenArgsValid == ~(args.extrapolated /\ args.extr_year = None)

C13_UndetrendedCallReturnsThePair ==
    (UnseenEnded /\ UnseenArgsValid /\ ~args.last_detrend) =>
        (pc = "done" /\ DOMAIN ret = {"unseen_distr", "diff_trends"})

----------------------------------------------------------------------------
(* C14: the distribution returned by get_unseen_distr holds, for each      *)
(* region, exactly one value for every (realisation, year) pair of the     *)
(* input ensemble and nothing else: its sample axis has the size           *)
(* realisations * years                                                    *)

UnseenDone == pc = "done" /\ args.fn = "get_unseen_distr"

\* the (realisation, year) pairs of the input ensemble
EnsemblePairs(model_da) ==
    {[realisation |-> k, year |-> model_da.year[yi]] :
        k \in 0 .. (model_da.nreal - 1), yi \in DOMAIN model_da.year}

C14_OneValuePerRealisationAndYear ==
    UnseenDone =>
        LET distr == ret.unseen_distr
            size  == args.model_da.nreal * Len(args.model_da.year)
        IN  /\ Len(distr.sample) = size
            /\ {distr.sample[s] : s \in DOMAIN distr.sample} = EnsemblePairs(args.model_da)
            /\ Cardinality(EnsemblePairs(args.model_da)) = size
            /\ DOMAIN distr.data = DOMAIN args.model_da.region
            /\ \A r \in DOMAIN distr.data : Len(distr.data[r]) = size

C14_Witness ==
    /\ UnseenDone
    /\ Len(ret.unseen_distr.data[1]) = 6
    /\ \E s, u \in DOMAIN ret.unseen_distr.data[1] :
          ret.unseen_distr.data[1][s] # ret.unseen_distr.data[1][u]

----------------------------------------------------------------------------
(* C15: for every region, realisation and year, the value in the           *)
(* distribution is the maximum, over all windows of extr_avg_period        *)
(* consecutive days lying inside the season, of the mean of the anomaly    *)
(* over that window, for every window length from 1 to the season length   *)

\* the means of the anomaly over the windows of w consecutive days of a season
WindowMeans(series, w) ==
    {Div(Sum(SubSeq(series, a, a + w - 1)), FromInt(w)) : a \in 1 .. (Len(series) - w + 1)}

IsMaximumOf(v, values) == v \in values /\ \A m \in values : Leq(m, v)

\* the anomaly of one region, year and realisation over the days of the season
AnomalySeries(r, yi, k) ==
    LET anomaly == DetrendedAnomaly(args.model_da, r, ret.diff_trends[r])
    IN  [t \in 1 .. args.model_da.ntime |-> anomaly[yi][t][k]]

C15_ValueIsRunningMeanSeasonalMaximum ==
    UnseenDone =>
        /\ args.extr_avg_period \in 1 .. args.model_da.ntime
        /\ \A r \in DOMAIN ret.unseen_distr.data : \A s \in DOMAIN ret.unseen_distr.sample :
              IsMaximumOf(ret.unseen_distr.data[r][s],
                          WindowMeans(AnomalySeries(r,
                                          IndexOf(args.model_da.year,
                                                  ret.unseen_distr.sample[s].year),
                                          ret.unseen_distr.sample[s].realisation + 1),
                                      args.extr_avg_period))

\* a window as long as the season, and a two-day window whose maximum is
\* below the largest daily anomaly
C15_Witness ==
    /\ UnseenDone
    /\ \/ /\ args.extr_avg_period = args.model_da.ntime
          /\ \E t \in 1 .. 3 : AnomalySeries(1, 1, 1)[t] # ret.unseen_distr.data[1][1]
       \/ /\ args.extr_avg_period = 2
          /\ \E t \in 1 .. 3 : Lt(ret.unseen_distr.data[1][1], AnomalySeries(1, 1, 1)[t])

----------------------------------------------------------------------------
(* C16: for every pivot year p, the risk get_functime_risk reports for p   *)
(* in a region equals the exceedance statistic of the focus event against  *)
(* the distribution get_unseen_distr returns for the same ensemble, trend  *)
(* reference, window length and trend source with pivot_year = p, which is *)
(* the risk of get_funcstrength_risk at increment 0 on that distribution   *)

FunctimeDone == pc = "done" /\ args.fn = "get_functime_risk"

\* the risks of the focus event against the result of get_unseen_distr:
\* by _calc_percentile, and by get_funcstrength_risk at its first increment
RisksAgainst(built, r) ==
    <<CalcPercentile(built.unseen_distr.data[r], args.focus_event[args.model_da.region[r]]),
      GetFuncstrengthRisk(built.unseen_distr, args.focus_event,
                          FromInt(1), FromInt(1)).risk[r][1]>>

RisksMatchDistributions(risks, system, extrapolated, extr_year) ==
    \A p \in DOMAIN risks.year :
        LET built == GetUnseenDistr(args.model_da, args.extr_avg_period, args.trend_data,
                                    TRUE, risks.year[p], system, extrapolated, extr_year)
        IN  /\ ~IsRaised(built)
            /\ \A r \in DOMAIN args.model_da.region :
                  RisksAgainst(built, r) = <<risks.data[r][p], risks.data[r][p]>>

C16_RiskOverTimeIsRiskOfTheDistribution ==
    FunctimeDone =>
        /\ ret.risks.year = args.core_pivot_yrs
        /\ RisksMatchDistributions(ret.risks, args.trend_source, FALSE, None)
        /\ ret.risks_extrapolated # None =>
              RisksMatchDistributions(ret.risks_extrapolated, "model", TRUE,
                                      args.extrapolate_yrs)

\* risks that differ between two pivot years and are neither 0 nor 100
C16_Witness ==
    /\ FunctimeDone
    /\ ret.risks.data[1][1] # ret.risks.data[1][2]
    /\ \E p \in 1 .. 2 : Lt(Zero, ret.risks.data[1][p]) /\ Lt(ret.risks.data[1][p], Hundred)

----------------------------------------------------------------------------
(* C17: when extrapolated is false, get_functime_risk returns None as its  *)
(* second value and get_ft_perc_low_high returns None as its third and     *)
(* fourth values, while the results of the core period are returned for    *)
(* every region and core pivot year                                        *)

IsPercent(v) == Leq(Zero, v) /\ Leq(v, Hundred)

C17_NoExtrapolatedResultsUnlessAsked ==
    /\ (FunctimeDone /\ ~args.extrapolated) =>
          /\ ret.risks_extrapolated = None
          /\ ret.risks.year = args.core_pivot_yrs
          /\ DOMAIN ret.risks.data = DOMAIN args.model_da.region
          /\ \A r \in DOMAIN ret.risks.data :
                /\ DOMAIN ret.risks.data[r] = DOMAIN args.core_pivot_yrs
                /\ \A p \in DOMAIN ret.risks.data[r] : IsPercent(ret.risks.data[r][p])
    /\ (FtBootDone /\ ~args.extrapolated) =>
          /\ ret.year_extrapolated = None
          /\ ret.bounds_extrapolated = None
          /\ ret.year = args.core_pivot_yrs
          /\ DOMAIN ret.bounds = DOMAIN args.model_da.region
          /\ \A r \in DOMAIN ret.bounds :
                /\ DOMAIN ret.bounds[r] = DOMAIN args.core_pivot_yrs
                /\ \A p \in DOMAIN ret.bounds[r] :
                      IsPercent(ret.bounds[r][p].low) /\ IsPercent(ret.bounds[r][p].high)

C17_Witness ==
    /\ FunctimeDone
    /\ ~args.extrapolated
    /\ args.trend_source = "model"
    /\ ret.risks.data[1][1] # ret.risks.data[1][2]

----------------------------------------------------------------------------
(* C18: if the region coordinates of the model ensemble and of the         *)
(* observational data are not the same set in the same order, the          *)
(* analysis fails with a ValueError before any trend fit, distribution     *)
(* build, risk estimate or bootstrap draw (stated for the estimators of    *)
(* the risk over time, which receive the two arrays)                       *)

RegionsDiffer == args.model_da.region # args.trend_data.region

C18_MismatchedRegionsEndInValueError ==
    (args.fn \in {"get_functime_risk", "get_ft_perc_low_high"} /\ RegionsDiffer) =>
        /\ pc \in {"start", "error"}
        /\ pc = "error" => ret = Raised("ValueError")

----------------------------------------------------------------------------
(* extract_target_days of methods/utils.py, for the default data_type.     *)
(* Days are numbered from 1 January of FirstYear; the daily series var     *)
(* holds every day of its years, and the value of a day is its number.     *)

FirstYear == 2008     \* the first year a daily series can start in
NumYears == 6         \* the daily series lie within FirstYear .. FirstYear + NumYears - 1

LeapReferenceYear == 2011     \* line 113: list(years).index(2012 - 1)
PlainReferenceYear == 2009    \* line 123: list(years).index(2010 - 1)

NaNDay == 0           \* line 99: the np.nan of the fill

RECURSIVE SumInts(_)
SumInts(a) == IF a = <<>> THEN 0 ELSE Head(a) + SumInts(Tail(a))

IsLeap(yr) == yr % 4 = 0 /\ (yr % 100 # 0 \/ yr % 400 = 0)

\* calendar.monthrange(yr, month)[1]
Monthrange(yr, month) ==
    IF month = 2 THEN (IF IsLeap(yr) THEN 29 ELSE 28)
    ELSE IF month \in {4, 6, 9, 11} THEN 30 ELSE 31

\* np.datetime64(f"{yr}-{month}-01") as a day number
FirstOfMonth(yr, month) ==
    SumInts([y \in 1 .. (yr - FirstYear) |-> IF IsLeap(FirstYear + y - 1) THEN 366 ELSE 365])
        + SumInts([k \in 1 .. (month - 1) |-> Monthrange(yr, k)]) + 1

\* the daily series of the years first .. last
DailySeries(first, last) ==
    [years |-> [i \in 1 .. (last - first + 1) |-> first + i - 1],
     first |-> FirstOfMonth(first, 1),
     last  |-> FirstOfMonth(last + 1, 1) - 1]

\* var.sel(time=slice(t0, t1)): the days of var from t0 to t1, both included
SelTime(var, t0, t1) ==
    [t \in 1 .. ((IF t1 < var.last THEN t1 ELSE var.last)
                    - (IF t0 > var.first THEN t0 ELSE var.first) + 1) |->
        (IF t0 > var.first THEN t0 ELSE var.first) + t - 1]

\* lines 59-67: the years of the months of the season of every requested year
SeasonYears(years, season_indices) ==
    [i \in DOMAIN years |-> [m \in DOMAIN season_indices |->
        IF m = 1 \/ season_indices[m] > season_indices[1] THEN years[i] ELSE years[i] + 1]]

\* lines 70-78: the number of days of the season of every requested year
SeasonDays(years, season_indices) ==
    [i \in DOMAIN years |->
        SumInts([m \in DOMAIN season_indices |->
                    Monthrange(SeasonYears(years, season_indices)[i][m],
                               season_indices[m] + 1)])]

\* lines 81-91: target_data, the slices of var that start on the first day
\* of the season in the years of var (not the requested years), as long as
\* the season of the requested year at the same position
TargetData(var, years, season_indices) ==
    [j \in 1 .. (IF Len(years) < Len(var.years) THEN Len(years) ELSE Len(var.years)) |->
        SelTime(var, FirstOfMonth(var.years[j], season_indices[1] + 1),
                FirstOfMonth(var.years[j], season_indices[1] + 1)
                    + SeasonDays(years, season_indices)[j] - 1)]

\* line 97: 1 in season_indices
HasFebruary(season_indices) == \E m \in DOMAIN season_indices : season_indices[m] = 1

\* lines 102-109: a NaN is appended unless the year after the requested year
\* is a leap year
TargetDataFill(target_data, years) ==
    [j \in DOMAIN target_data |->
        IF IsLeap(years[j] + 1) THEN target_data[j] ELSE Append(target_data[j], NaNDay)]

\* lines 127-138: the DataArray of the rows, ValueError when the rows do not
\* all have the length of ttime or are not one per requested year
SeasonArray(years, ttime, rows, target_data) ==
    IF Len(rows) # Len(years) \/ \E j \in DOMAIN rows : Len(rows[j]) # Len(ttime)
    THEN Raised("ValueError")
    ELSE [year |-> years, time |-> ttime, data |-> rows, target_data |-> target_data]

\* lines 97-138 given target_data: the reference year is looked up in the
\* requested years (ValueError when it is absent)
SeasonOfTargetData(years, season_indices, target_data) ==
    IF HasFebruary(season_indices)
    THEN IF target_data = <<>> \/ target_data[1] = <<>>
         THEN Raised("IndexError")
         ELSE IF IndexOf(years, LeapReferenceYear) = 0
         THEN Raised("ValueError")
         ELSE IF IndexOf(years, LeapReferenceYear) > Len(target_data)
         THEN Raised("IndexError")
         ELSE SeasonArray(years, target_data[IndexOf(years, LeapReferenceYear)],
                          TargetDataFill(target_data, years), target_data)
    ELSE IF IndexOf(years, PlainReferenceYear) = 0
         THEN Raised("ValueError")
         ELSE IF IndexOf(years, PlainReferenceYear) > Len(target_data)
         THEN Raised("IndexError")
         ELSE SeasonArray(years, target_data[IndexOf(years, PlainReferenceYear)],
                          target_data, target_data)

\* extract_target_days(var, years, season_indices): the seasonal array with
\* the slices it was built from, or the exception
ExtractTargetDays(var, years, season_indices) ==
    CHOOSE res \in
        {SeasonOfTargetData(years, season_indices, target_data) :
            target_data \in {Eager(TargetData(var, years, season_indices))}} : TRUE

----------------------------------------------------------------------------
(* Specification SpecSeason: one call of extract_target_days on a daily    *)
(* series of whole years, for an increasing selection of its years         *)

\* JJA, MAM, SON, NDJ without February; JFM, FMA, DJF and February alone with it
SeasonChoices ==
    {<<5, 6, 7>>, <<2, 3, 4>>, <<8, 9, 10>>, <<10, 11, 0>>,
     <<0, 1, 2>>, <<1, 2, 3>>, <<11, 0, 1>>, <<1>>}

RECURSIVE Increasing(_)
Increasing(ys) ==
    IF ys = {} THEN <<>>
    ELSE <<CHOOSE y \in ys : \A z \in ys : y <= z>>
            \o Increasing(ys \ {CHOOSE y \in ys : \A z \in ys : y <= z})

InitSeason ==
    /\ pc = "start"
    /\ args \in {[fn |-> "extract_target_days", var |-> DailySeries(first, last),
                  years |-> Increasing(ys), season_indices |-> si] :
                    first \in {FirstYear, FirstYear + 1},
                    last \in {FirstYear + NumYears - 1},
                    ys \in (SUBSET (FirstYear + 1 .. FirstYear + NumYears - 1)) \ {{}},
                    si \in SeasonChoices}
    /\ loc = None
    /\ ret = None

CallExtractTargetDays ==
    /\ pc = "start"
    /\ args.fn = "extract_target_days"
    /\ \E res \in {ExtractTargetDays(args.var, args.years, args.season_indices)} :
          /\ pc' = IF IsRaised(res) THEN "error" ELSE "done"
          /\ ret' = res
    /\ UNCHANGED <<args, loc>>

NextSeason == CallExtractTargetDays

SpecSeason == InitSeason /\ [][NextSeason]_vars

----------------------------------------------------------------------------
(* C19: for every season window that does not contain February and every   *)
(* set of requested years covered by the daily series, extract_target_days *)
(* succeeds and returns the same number of days for every requested year   *)

SeasonEnded == pc \in {"done", "error"} /\ args.fn = "extract_target_days"

\* the season of every requested year lies within the daily series
SeasonsCovered ==
    \A i \in DOMAIN args.years :
        /\ FirstOfMonth(args.years[i], args.season_indices[1] + 1) >= args.var.first
        /\ FirstOfMonth(args.years[i], args.season_indices[1] + 1)
              + SeasonDays(args.years, args.season_indices)[i] - 1 <= args.var.last

C19_SeasonWithoutFebruaryHasEqualLengths ==
    (SeasonEnded /\ ~HasFebruary(args.season_indices) /\ SeasonsCovered) =>
        /\ pc = "done"
        /\ DOMAIN ret.data = DOMAIN args.years
        /\ \A i, j \in DOMAIN ret.data : Len(ret.data[i]) = Len(ret.data[j])

----------------------------------------------------------------------------
(* C20: for every season window that contains February, in the start year  *)
(* of the season (JFM, FMA) or in the following year (DJF), a requested    *)
(* year whose February is not in a leap year yields one day fewer than one *)
(* whose February is in a leap year before padding, and after padding      *)
(* every requested year has the leap-year length, the added last timestep  *)
(* being NaN exactly for the non-leap years (stated for the requests that  *)
(* include the reference year of line 113)                                 *)

\* the year the February of the season of the i-th requested year falls in
FebruaryYear(i) ==
    SeasonYears(args.years, args.season_indices)[i][
        CHOOSE m \in DOMAIN args.season_indices : args.season_indices[m] = 1]

\* the number of days of the season when its February has 29 days
LeapSeasonLength(i) ==
    SeasonDays(args.years, args.season_indices)[i] + (IF IsLeap(FebruaryYear(i)) THEN 0 ELSE 1)

C20_FebruarySeasonsArePaddedToLeapLength ==
    (/\ SeasonEnded
     /\ HasFebruary(args.season_indices)
     /\ SeasonsCovered
     /\ IndexOf(args.years, LeapReferenceYear) # 0) =>
        /\ pc = "done"
        /\ DOMAIN ret.data = DOMAIN args.years
        /\ \A i \in DOMAIN ret.data :
              /\ Len(ret.target_data[i]) =
                    LeapSeasonLength(i) - (IF IsLeap(FebruaryYear(i)) THEN 0 ELSE 1)
              /\ Len(ret.data[i]) = LeapSeasonLength(i)
              /\ (ret.data[i][Len(ret.data[i])] = NaNDay) <=> ~IsLeap(FebruaryYear(i))

----------------------------------------------------------------------------
(* C21: for each requested year y, the extracted season consists of        *)
(* exactly the calendar days from the first day of the first listed month  *)
(* of y through the last day of the last listed month, the months listed   *)
(* below the first one belonging to y + 1; this holds for every requested  *)
(* year set, a proper subset of the years of the series included           *)

\* the days of the season of the i-th requested year
CalendarSeason(i) ==
    LET first == FirstOfMonth(args.years[i], args.season_indices[1] + 1)
        last  == FirstOfMonth(
                     SeasonYears(args.years, args.season_indices)[i][Len(args.season_indices)],
                     args.season_indices[Len(args.season_indices)] + 2) - 1
    IN  [t \in 1 .. (last - first + 1) |-> first + t - 1]

C21_SeasonHoldsTheDaysOfTheRequestedYear ==
    (SeasonEnded /\ pc = "done" /\ SeasonsCovered) =>
        \A i \in DOMAIN args.years : ret.target_data[i] = CalendarSeason(i)

----------------------------------------------------------------------------
(* C22: when February is in the season window, the extraction succeeds     *)
(* whenever some requested year has a season with a leap-year February,    *)
(* the time labels being those of such a year, as many as the padded       *)
(* length; it fails with ValueError exactly when no requested year has one *)

\* some requested year has a season whose February has 29 days
LeapSeasonRequested == \E i \in DOMAIN args.years : IsLeap(FebruaryYear(i))

C22_FebruarySeasonSucceedsIffALeapSeasonIsRequested ==
    (SeasonEnded /\ HasFebruary(args.season_indices) /\ SeasonsCovered) =>
        IF LeapSeasonRequested
        THEN /\ pc = "done"
             /\ \E i \in DOMAIN args.years :
                   IsLeap(FebruaryYear(i)) /\ ret.time = CalendarSeason(i)
             /\ \A i \in DOMAIN ret.data : Len(ret.data[i]) = Len(ret.time)
        ELSE pc = "error" /\ ret.raised = "ValueError"

----------------------------------------------------------------------------
(* extract_target_days with data_type="map": the slices are gridded, and   *)
(* only their shapes decide whether the padding and the DataArray          *)
(* constructor accept them, so a slice is modelled by its days and shape   *)

\* the sizes of the dimensions of a gridded series other than time
MapSizes == [realisation |-> 2, latitude |-> 2, longitude |-> 3]

\* the dimension orders of a gridded daily series: the plain map, and the
\* map with a realisation dimension before time, after time and last
MapLayouts ==
    {<<"time", "latitude", "longitude">>,
     <<"realisation", "time", "latitude", "longitude">>,
     <<"time", "realisation", "latitude", "longitude">>,
     <<"time", "latitude", "longitude", "realisation">>}

\* the shape of a slice of ntime days of a series with dimensions dims
SliceShape(dims, ntime) ==
    [k \in DOMAIN dims |-> IF dims[k] = "time" THEN ntime ELSE MapSizes[dims[k]]]

\* np.concatenate((a, b), axis=1) on shapes: every axis but the second one
\* must agree (line 107)
ConcatenateAxis1(a, b) ==
    IF Len(a) # Len(b) \/ \E k \in DOMAIN a : k # 2 /\ a[k] # b[k]
    THEN Raised("ValueError")
    ELSE [shape |-> [k \in DOMAIN a |-> IF k = 2 THEN a[k] + b[k] ELSE a[k]]]

\* lines 99-109 on shapes: fill has the shape of one day of the first slice
MapFill(dims, target_data, years) ==
    [j \in 1 .. (IF Len(years) < Len(target_data) THEN Len(years) ELSE Len(target_data)) |->
        IF IsLeap(years[j] + 1)
        THEN [shape |-> SliceShape(dims, Len(target_data[j]))]
        ELSE ConcatenateAxis1(SliceShape(dims, Len(target_data[j])), SliceShape(dims, 1))]

\* a constructor that takes arrays of any number of axes
MapDataArrayAnyRank(years, ttime, rows) ==
    IF \E j \in DOMAIN rows : rows[j] # rows[1]
    THEN Raised("ValueError")
    ELSE [year |-> years, time |-> ttime, shape |-> <<Len(rows)>> \o rows[1].shape]

\* lines 127-132: the list of rows becomes one array with a leading year
\* axis (ValueError for rows of different shapes); the constructor takes
\* four coordinates and raises ValueError unless the array has four axes
\* of the lengths of the coordinates
MapDataArray(years, ttime, rows) ==
    IF \E j \in DOMAIN rows : rows[j] # rows[1]
    THEN Raised("ValueError")
    ELSE IF rows = <<>> \/ Len(rows[1].shape) + 1 # 4
    THEN Raised("ValueError")
    ELSE IF <<Len(rows)>> \o rows[1].shape
                # <<Len(years), Len(ttime), MapSizes.latitude, MapSizes.longitude>>
    THEN Raised("ValueError")
    ELSE [year |-> years, time |-> ttime, shape |-> <<Len(rows)>> \o rows[1].shape]

\* lines 97-132 given target_data
MapOfTargetData(dims, years, season_indices, target_data) ==
    IF HasFebruary(season_indices)
    THEN IF target_data = <<>> \/ target_data[1] = <<>>
         THEN Raised("IndexError")
         ELSE IF \E j \in DOMAIN MapFill(dims, target_data, years) :
                    IsRaised(MapFill(dims, target_data, years)[j])
         THEN Raised("ValueError")
         ELSE IF IndexOf(years, LeapReferenceYear) = 0
         THEN Raised("ValueError")
         ELSE IF IndexOf(years, LeapReferenceYear) > Len(target_data)
         THEN Raised("IndexError")
         ELSE MapDataArray(years, target_data[IndexOf(years, LeapReferenceYear)],
                           MapFill(dims, target_data, years))
    ELSE IF IndexOf(years, PlainReferenceYear) = 0
         THEN Raised("ValueError")
         ELSE IF IndexOf(years, PlainReferenceYear) > Len(target_data)
         THEN Raised("IndexError")
         ELSE MapDataArray(years, target_data[IndexOf(years, PlainReferenceYear)],
                           [j \in DOMAIN target_data |->
                               [shape |-> SliceShape(dims, Len(target_data[j]))]])

\* extract_target_days(var, years, season_indices, data_type="map")
ExtractTargetDaysMap(var, years, season_indices) ==
    CHOOSE res \in
        {MapOfTargetData(var.dims, years, season_indices, target_data) :
            target_data \in {Eager(TargetData(var, years, season_indices))}} : TRUE

----------------------------------------------------------------------------
(* Specification SpecMap: one call of extract_target_days with             *)
(* data_type="map" on a gridded daily series of whole years                *)

InitMap ==
    /\ pc = "start"
    /\ args \in {[fn |-> "extract_target_days", data_type |-> "map",
                  var |-> [years |-> DailySeries(first, last).years,
                           first |-> DailySeries(first, last).first,
                           last |-> DailySeries(first, last).last,
                           dims |-> dims],
                  years |-> Increasing(ys), season_indices |-> si] :
                    first \in {FirstYear, FirstYear + 1},
                    last \in {FirstYear + NumYears - 1},
                    dims \in MapLayouts,
                    ys \in (SUBSET (FirstYear + 1 .. FirstYear + NumYears - 1)) \ {{}},
                    si \in SeasonChoices}
    /\ loc = None
    /\ ret = None

CallExtractTargetDaysMap ==
    /\ pc = "start"
    /\ args.fn = "extract_target_days"
    /\ args.data_type = "map"
    /\ \E res \in {ExtractTargetDaysMap(args.var, args.years, args.season_indices)} :
          /\ pc' = IF IsRaised(res) THEN "error" ELSE "done"
          /\ ret' = res
    /\ UNCHANGED <<args, loc>>

NextMap == CallExtractTargetDaysMap

SpecMap == InitMap /\ [][NextMap]_vars

----------------------------------------------------------------------------
(* C23: season extraction called with data_type="map" on an input that     *)
(* carries a realisation dimension fails with ValueError and returns no    *)
(* array                                                                   *)

MapEnded ==
    pc \in {"done", "error"} /\ args.fn = "extract_target_days" /\ "data_type" \in DOMAIN args

HasRealisation(dims) == \E k \in DOMAIN dims : dims[k] = "realisation"

C23_MapOfAnEnsembleEndsInValueError ==
    (MapEnded /\ HasRealisation(args.var.dims)) =>
        (pc = "error" /\ ret.raised = "ValueError")

\* the constructor itself refused the ensemble: the season has no February,
\* the reference year is requested, and the call ended in ValueError
C23_Witness ==
    /\ MapEnded
    /\ HasRealisation(args.var.dims)
    /\ ~HasFebruary(args.season_indices)
    /\ IndexOf(args.years, PlainReferenceYear) # 0
    /\ args.years = SubSeq(args.var.years, 1, Len(args.years))
    /\ pc = "error"
    /\ ret.raised = "ValueError"

----------------------------------------------------------------------------
(* figure_s2.py's bootstrap_pseudo_timeseries(dat, n_iterations): for each *)
(* region and iteration, one value per year drawn from the realisations of *)
(* that year                                                               *)

\* the slice of the first year whatever the year asked for
StratSliceFirstYear(dat, r_idx, yr) == dat.data[r_idx][1]

\* figure_s2.py line 66: dat.isel(region=r_idx).sel(year=yr), the values of
\* all realisations
StratSlice(dat, r_idx, yr) == dat.data[r_idx][IndexOf(dat.year, yr)]

\* figure_s2.py lines 64-68: the list comprehension over dat["year"], one
\* np.random.choice(slice, 1, replace=True)[0] per year; random_idxs holds
\* the position drawn for every year
StratSeries(dat, r_idx, random_idxs) ==
    [yi \in DOMAIN dat.year |-> StratSlice(dat, r_idx, dat.year[yi])[random_idxs[yi]]]

\* figure_s2.py lines 57-58: the empty list and the first region
StratEnter ==
    /\ pc = "start"
    /\ args.fn = "bootstrap_pseudo_timeseries_s2"
    /\ loc' = [r_idx |-> 1, ts_tmp |-> <<>>, pseudo_timeseries |-> <<>>]
    /\ pc' = "strat_draw"
    /\ UNCHANGED <<args, ret>>

\* figure_s2.py lines 61-70: one iteration of the inner loop, and the append
\* and region advance after the last one
StratDraw ==
    /\ pc = "strat_draw"
    /\ \E random_idxs \in [DOMAIN args.dat.year -> 1 .. args.dat.nreal] :
         \E ts_tmp \in {Append(loc.ts_tmp, StratSeries(args.dat, loc.r_idx, random_idxs))} :
            IF Len(ts_tmp) < args.n_iterations
            THEN /\ loc' = [loc EXCEPT !.ts_tmp = ts_tmp]
                 /\ pc' = "strat_draw"
            ELSE IF loc.r_idx < Len(args.dat.region)
            THEN /\ loc' = [loc EXCEPT !.ts_tmp = <<>>,
                               !.pseudo_timeseries = Append(@, ts_tmp),
                               !.r_idx = loc.r_idx + 1]
                 /\ pc' = "strat_draw"
            ELSE /\ loc' = [loc EXCEPT !.ts_tmp = <<>>,
                               !.pseudo_timeseries = Append(@, ts_tmp)]
                 /\ pc' = "strat_return"
    /\ UNCHANGED <<args, ret>>

\* figure_s2.py lines 72-83: the labelled array (region, iteration, year)
StratReturn ==
    /\ pc = "strat_return"
    /\ ret' = [region |-> args.dat.region,
               iteration |-> [i \in 1 .. args.n_iterations |-> i],
               year |-> args.dat.year,
               data |-> loc.pseudo_timeseries]
    /\ pc' = "done"
    /\ UNCHANGED <<args, loc>>

----------------------------------------------------------------------------
(* Specification SpecStrat: one call of figure_s2.py's                     *)
(* bootstrap_pseudo_timeseries on the time mean of an ensemble of two      *)
(* regions, two years and two realisations                                 *)

StratYears == <<1993, 1994>>

\* values that differ in every region, year and realisation; values that
\* differ between the realisations only; values that differ between the
\* years only
StratEnsembles ==
    {[region |-> RegionNames, year |-> StratYears, nreal |-> 2,
      data |-> [r \in 1 .. 2 |-> [yi \in 1 .. 2 |-> [k \in 1 .. 2 |->
                    a * r + b * yi + c * k]]]] :
        <<a, b, c>> \in {<<100, 10, 1>>, <<0, 0, 1>>, <<0, 10, 0>>}}

InitStrat ==
    /\ pc = "start"
    /\ args \in {[fn |-> "bootstrap_pseudo_timeseries_s2", dat |-> dat, n_iterations |-> n] :
                    dat \in StratEnsembles, n \in 1 .. MaxIter}
    /\ loc = None
    /\ ret = None

NextStrat == StratEnter \/ StratDraw \/ StratReturn

SpecStrat == InitStrat /\ [][NextStrat]_vars

----------------------------------------------------------------------------
(* C24: in the stratified per-year bootstrap every pseudo-time-series of   *)
(* every iteration and region has exactly one value per year of the input, *)
(* and the value placed at year y is a member of the slice across the      *)
(* realisations of year y of that region                                   *)

StratDone == pc = "done" /\ args.fn = "bootstrap_pseudo_timeseries_s2"

C24_PseudoSeriesTakeEveryYearFromItsOwnSlice ==
    StratDone =>
        /\ ret.year = args.dat.year
        /\ DOMAIN ret.data = DOMAIN args.dat.region
        /\ \A r \in DOMAIN ret.data :
              /\ Len(ret.data[r]) = args.n_iterations
              /\ \A it \in DOMAIN ret.data[r] :
                    /\ DOMAIN ret.data[r][it] = DOMAIN args.dat.year
                    /\ \A yi \in DOMAIN args.dat.year :
                          \E k \in 1 .. args.dat.nreal :
                              ret.data[r][it][yi] = args.dat.data[r][yi][k]

\* all values of the input differ, and one pseudo-time-series takes its two
\* years from different realisations
C24_Witness ==
    /\ StratDone
    /\ args.n_iterations = MaxIter
    /\ args.dat.data[1][1][1] # args.dat.data[1][2][1]
    /\ args.dat.data[1][1][1] # args.dat.data[2][1][1]
    /\ ret.data[2][MaxIter] = <<args.dat.data[2][1][2], args.dat.data[2][2][1]>>

----------------------------------------------------------------------------
(* Specification SpecConsumers: one call of one of the four consumers of   *)
(* the distribution and of the ensemble, get_funcstrength_risk,            *)
(* get_fs_perc_low_high, get_functime_risk or get_ft_perc_low_high         *)

InitConsumers == InitStrength \/ InitFsBoot \/ InitTime \/ InitFtBoot

NextConsumers ==
    \/ CallGetFuncstrengthRisk
    \/ FsEnter \/ FsDraw \/ FsQuantiles
    \/ CallGetFunctimeRisk
    \/ FtEnter \/ FtDraw \/ FtQuantiles

SpecConsumers == InitConsumers /\ [][NextConsumers]_vars

----------------------------------------------------------------------------
(* C25: the distribution and the input ensemble are never changed by their *)
(* consumers: over any call of get_funcstrength_risk, get_fs_perc_low_high,*)
(* get_functime_risk and get_ft_perc_low_high, the distribution, the model *)
(* ensemble, the trend reference and the focus event keep their values     *)

C25_ConsumersLeaveTheirInputsAlone == [][args' = args]_vars

\* a bootstrap over an unsorted distribution has returned its bounds
C25_Witness ==
    /\ pc = "done"
    /\ args.fn = "get_fs_perc_low_high"
    /\ args.n_iterations = MaxIter
    /\ \E r \in DOMAIN args.unseen_distr.data :
          args.unseen_distr.data[r] # Sort(args.unseen_distr.data[r])

----------------------------------------------------------------------------
(* The flattening of the ensemble in the scripts (figure3.py lines 34-39,  *)
(* figure2.py lines 29-34): stack the hindcast, startdate and member       *)
(* dimensions into realisation, select the regions, drop the labels of the *)
(* stacked dimension and number the realisations                           *)

MaxHindcast == 2
MaxStartdate == 2
MaxMember == 3

\* a stacked index that keeps the first member only
StackIndexFirstMember(nh, ns, nm) ==
    [i \in 1 .. (nh * ns) |-> <<((i - 1) \div ns) + 1, ((i - 1) % ns) + 1, 1>>]

\* stack(realisation=("hindcast", "startdate", "member")): the product of
\* the three dimensions, the last one varying fastest
StackIndex(nh, ns, nm) ==
    [i \in 1 .. (nh * ns * nm) |->
        <<((i - 1) \div (ns * nm)) + 1, (((i - 1) \div nm) % ns) + 1, ((i - 1) % nm) + 1>>]

\* line 34-36: the stacked array of the selected regions, with the labels
\* (hindcast, startdate, member) of every realisation
FlattenStack ==
    /\ pc = "start"
    /\ args.fn = "flatten"
    /\ \E index \in {StackIndex(Len(args.model_da.hindcast), Len(args.model_da.startdate),
                                Len(args.model_da.member))} :
          loc' = [large_da |->
                    [region |-> args.regions_choices,
                     realisation |-> [i \in DOMAIN index |->
                                        <<args.model_da.hindcast[index[i][1]],
                                          args.model_da.startdate[index[i][2]],
                                          args.model_da.member[index[i][3]]>>],
                     data |-> [r \in DOMAIN args.regions_choices |->
                                [i \in DOMAIN index |->
                                    args.model_da.data[IndexOf(args.model_da.region,
                                                               args.regions_choices[r])]
                                        [index[i][1]][index[i][2]][index[i][3]]]]],
                  stacked |-> index]
    /\ pc' = "drop_vars"
    /\ UNCHANGED <<args, ret>>

\* line 38: drop_vars removes the labels; the dimension keeps its size
FlattenDropVars ==
    /\ pc = "drop_vars"
    /\ loc' = [loc EXCEPT !.large_da.realisation = None]
    /\ pc' = "arange"
    /\ UNCHANGED <<args, ret>>

\* line 39: large_da["realisation"] = np.arange(large_da["realisation"].size)
FlattenArange ==
    /\ pc = "arange"
    /\ ret' = [loc.large_da EXCEPT
                  !.realisation = [i \in 1 .. Len(loc.large_da.data[1]) |-> i - 1]]
    /\ pc' = "done"
    /\ UNCHANGED <<args, loc>>

----------------------------------------------------------------------------
(* Specification SpecFlatten: the flattening of an ensemble of up to       *)
(* MaxHindcast hindcasts, MaxStartdate start dates and MaxMember members   *)
(* in two regions                                                          *)

\* the hindcasts, start dates and members carry labels of their own; the
\* values tell the combinations apart, tell the members apart only, or are
\* all equal
FlattenEnsembles ==
    {[region |-> RegionNames,
      hindcast |-> [h \in 1 .. nh |-> 2000 + h],
      startdate |-> [sd \in 1 .. ns |-> 10 * sd],
      member |-> [m \in 1 .. nm |-> m - 1],
      data |-> [r \in 1 .. 2 |-> [h \in 1 .. nh |-> [sd \in 1 .. ns |-> [m \in 1 .. nm |->
                    r * (a * h + b * sd + c * m)]]]]] :
        nh \in 1 .. MaxHindcast, ns \in 1 .. MaxStartdate, nm \in 1 .. MaxMember,
        <<a, b, c>> \in {<<100, 10, 1>>, <<0, 0, 1>>, <<0, 0, 0>>}}

InitFlatten ==
    /\ pc = "start"
    /\ args \in {[fn |-> "flatten", model_da |-> m, regions_choices |-> RegionNames] :
                    m \in FlattenEnsembles}
    /\ loc = None
    /\ ret = None

NextFlatten == FlattenStack \/ FlattenDropVars \/ FlattenArange

SpecFlatten == InitFlatten /\ [][NextFlatten]_vars

----------------------------------------------------------------------------
(* C26: flattening an ensemble of H hindcasts, S start dates and M members *)
(* gives a realisation axis of size H * S * M whose index values are       *)
(* exactly 0 .. H * S * M - 1, each (hindcast, startdate, member)          *)
(* combination being exactly one realisation                               *)

FlattenDone == pc = "done" /\ args.fn = "flatten"

FlattenSize ==
    Len(args.model_da.hindcast) * Len(args.model_da.startdate) * Len(args.model_da.member)

C26_RealisationsNumberTheCombinations ==
    FlattenDone =>
        /\ ret.realisation = [i \in 1 .. FlattenSize |-> i - 1]
        /\ \A r \in DOMAIN ret.data : Len(ret.data[r]) = FlattenSize
        /\ \A h \in DOMAIN args.model_da.hindcast, sd \in DOMAIN args.model_da.startdate,
              m \in DOMAIN args.model_da.member :
                Cardinality({i \in DOMAIN loc.stacked : loc.stacked[i] = <<h, sd, m>>}) = 1
        /\ \A r \in DOMAIN ret.data, i \in DOMAIN loc.stacked :
                ret.data[r][i] =
                    args.model_da.data[r][loc.stacked[i][1]][loc.stacked[i][2]][loc.stacked[i][3]]

\* 2 x 2 x 3 gives the twelve realisations 0 .. 11, all with different values
C26_Witness ==
    /\ FlattenDone
    /\ Len(args.model_da.hindcast) = 2
    /\ Len(args.model_da.startdate) = 2
    /\ Len(args.model_da.member) = 3
    /\ ret.realisation = <<0, 1, 2, 3, 4, 5, 6, 7, 8, 9, 10, 11>>
    /\ Cardinality({ret.data[1][i] : i \in DOMAIN ret.data[1]}) = 12

----------------------------------------------------------------------------
(* C27: in both bootstrap routines the bounds of a grid point are computed *)
(* only after all n_iterations resample statistics of that grid point have *)
(* been collected: exactly n_iterations draws are made per (region, grid   *)
(* point), none is skipped, and no bound comes from a partial set of draws *)

\* n statistics for every one of ngrid grid points of every region
AllCollected(risks, nregions, ngrid, n) ==
    /\ Len(risks) = nregions
    /\ \A r \in DOMAIN risks :
          /\ Len(risks[r]) = ngrid
          /\ \A g \in DOMAIN risks[r] : Len(risks[r][g]) = n

\* the statistics collected so far: n for every finished grid point of the
\* finished regions and of the running region, fewer than n for the one
\* being drawn, one draw for each of them
CollectedSoFar(risks, risks_region, risks_point, ngrid, n, draws) ==
    /\ \A r \in DOMAIN risks :
          Len(risks[r]) = ngrid /\ \A g \in DOMAIN risks[r] : Len(risks[r][g]) = n
    /\ \A g \in DOMAIN risks_region : Len(risks_region[g]) = n
    /\ Len(risks_point) < n
    /\ draws = (Len(risks) * ngrid + Len(risks_region)) * n + Len(risks_point)

C27_BoundsComeAfterAllDraws ==
    /\ pc = "fs_draw" =>
          /\ ret = None
          /\ CollectedSoFar(loc.risks_bootstrapped, loc.risks_incre, loc.risk_tmp,
                            Len(loc.increments), args.n_iterations, loc.draws)
    /\ (pc = "fs_quantile" \/ FsBootDone) =>
          /\ AllCollected(loc.risks_bootstrapped, Len(args.unseen_distr.region),
                          Len(loc.increments), args.n_iterations)
          /\ loc.draws = Len(args.unseen_distr.region) * Len(loc.increments) * args.n_iterations
    /\ pc = "ft_draw" =>
          /\ ret = None
          /\ CollectedSoFar(loc.risks_bootstrapped, loc.probs_years, loc.probs_tmp,
                            Len(loc.pivot_years), args.n_iterations, loc.draws)
          /\ IF loc.phase = "core"
             THEN loc.core = None
             ELSE AllCollected(loc.core.risks_bootstrapped, Len(args.model_da.region),
                               Len(args.core_pivot_yrs), args.n_iterations)
    /\ (pc = "ft_quantile" \/ FtBootDone) =>
          /\ AllCollected(loc.risks_bootstrapped, Len(args.model_da.region),
                          Len(loc.pivot_years), args.n_iterations)
          /\ loc.draws = Len(args.model_da.region) * Len(loc.pivot_years) * args.n_iterations

\* the bounds of two pivot years of two regions were returned after
\* MaxIter draws for each of them
C27_Witness ==
    /\ FtBootDone
    /\ args.n_iterations = MaxIter
    /\ Len(args.core_pivot_yrs) = 2
    /\ loc.draws = 4 * MaxIter
    /\ Len(ret.bounds[2]) = 2

----------------------------------------------------------------------------
(* C28: for a fixed ensemble, trend reference and focus event, changing    *)
(* the pivot year from p1 to p2 shifts every value of the detrended sample *)
(* of extremes by slope * (p2 - p1); the risk over time is therefore       *)
(* non-decreasing in the pivot year when the fitted slope is >= 0 and      *)
(* non-increasing when it is <= 0, in every region                         *)

\* the slope of the least-squares line of the trend reference of region r
FittedSlope(r, system) ==
    LeastSquaresSlope([i \in DOMAIN args.trend_data.year |-> FromInt(args.trend_data.year[i])],
                      PivotRegressand(TimeMean(args.trend_data), r, system))

\* the samples of two pivot years differ by the slope times the distance of
\* the years, and the risks are ordered as the sign of the slope says
ShiftedBySlope(slope, pivot_years, samples, risks) ==
    \A i, j \in DOMAIN pivot_years :
        (pivot_years[i] <= pivot_years[j]) =>
            /\ \A sm \in DOMAIN samples[i] :
                  samples[j][sm] =
                      Add(samples[i][sm], Mul(slope, FromInt(pivot_years[j] - pivot_years[i])))
            /\ Leq(Zero, slope) => Leq(risks[i], risks[j])
            /\ Leq(slope, Zero) => Leq(risks[j], risks[i])

C28_PivotYearShiftsTheSampleBySlope ==
    FunctimeDone =>
        \A r \in DOMAIN args.model_da.region :
            /\ \A samples \in
                    {FtRegionSamples(args.model_da, args.trend_data, args.extr_avg_period,
                                     args.core_pivot_yrs, args.trend_source, FALSE, None, r)} :
                  \A slope \in {FittedSlope(r, args.trend_source)} :
                      ShiftedBySlope(slope, args.core_pivot_yrs, samples.arr, ret.risks.data[r])
            /\ ret.risks_extrapolated # None =>
                  \A samples \in
                        {FtRegionSamples(args.model_da, args.trend_data, args.extr_avg_period,
                                         args.extrapolate_yrs, "model", TRUE,
                                         args.extrapolate_yrs, r)} :
                      \A slope \in {FittedSlope(r, "model")} :
                          ShiftedBySlope(slope, args.extrapolate_yrs, samples.arr,
                                         ret.risks_extrapolated.data[r])

\* a falling trend: the risk of the later pivot year is the smaller one
C28_Witness ==
    /\ FunctimeDone
    /\ Lt(FittedSlope(1, args.trend_source), Zero)
    /\ Lt(ret.risks.data[1][2], ret.risks.data[1][1])

\* a rising trend: the risk of the later pivot year is the larger one
C28_WitnessRising ==
    /\ FunctimeDone
    /\ Lt(Zero, FittedSlope(1, args.trend_source))
    /\ Lt(ret.risks.data[1][1], ret.risks.data[1][2])

----------------------------------------------------------------------------
(* Specification SpecExtrapolation: one call of get_functime_risk,         *)
(* get_ft_perc_low_high or get_unseen_distr, the three functions that take *)
(* the extrapolated flag with optional extrapolation years                 *)

InitExtrapolation == InitTime \/ InitFtBoot \/ InitDistr

NextExtrapolation == NextTime \/ CallGetUnseenDistr

SpecExtrapolation == InitExtrapolation /\ [][NextExtrapolation]_vars

----------------------------------------------------------------------------
(* C29: in get_functime_risk and get_ft_perc_low_high, called with         *)
(* extrapolated=True and no extrapolation years, the ValueError is raised  *)
(* only after the whole computation of the core period (all regions, all   *)
(* core pivot years and, for the bounds, all their draws) has completed,   *)
(* and the result of the core period is discarded; get_unseen_distr raises *)
(* before any offset is fitted                                             *)

\* get_functime_risk: an exception of the core period is the one that is
\* raised; the ValueError comes when the core period has returned its risks
FunctimeRaisesAfterCore ==
    \A core \in {CalcRisks(args.model_da, args.trend_data, args.extr_avg_period,
                           args.focus_event, args.core_pivot_yrs, args.trend_source,
                           FALSE, None)} :
        /\ pc = "error"
        /\ ret = IF IsRaised(core) THEN core ELSE Raised("ValueError")

\* get_ft_perc_low_high: the ValueError finds the statistics of every region
\* and core pivot year collected, and no bounds are returned
FtRaisesAfterCore ==
    /\ pc = "error"
    /\ ret = Raised("ValueError") =>
          /\ loc.phase = "core"
          /\ AllCollected(loc.risks_bootstrapped, Len(args.model_da.region),
                          Len(args.core_pivot_yrs), args.n_iterations)
          /\ loc.draws = Len(args.model_da.region) * Len(args.core_pivot_yrs)
                            * args.n_iterations

C29_ValueErrorComesAfterTheCorePeriod ==
    /\ (FunctimeEnded /\ MissingExtrapolationYears) =>
          IF args.fn = "get_functime_risk" THEN FunctimeRaisesAfterCore ELSE FtRaisesAfterCore
    /\ (UnseenEnded /\ ~UnseenArgsValid) => (pc = "error" /\ ret = Raised("ValueError"))

\* the bounds of the core period were drawn in full and the call ended in
\* ValueError
C29_Witness ==
    /\ FunctimeEnded
    /\ MissingExtrapolationYears
    /\ args.fn = "get_ft_perc_low_high"
    /\ args.n_iterations = MaxIter
    /\ Len(args.core_pivot_yrs) = 2
    /\ ret = Raised("ValueError")
    /\ loc.draws = 4 * MaxIter

\* the core period of get_functime_risk raised before the arguments were tested
C29_WitnessCoreRaises ==
    /\ FunctimeEnded
    /\ MissingExtrapolationYears
    /\ args.fn = "get_functime_risk"
    /\ ret = Raised("KeyError")

----------------------------------------------------------------------------
(* C30: in get_unseen_distr and get_functime_risk the climatological mean  *)
(* that is subtracted is the mean over realisation and year of the raw     *)
(* ensemble, separate for each region and time of season; the anomaly is   *)
(* raw - offset(year) - rawmean(time), so its mean over realisations and   *)
(* years at each time of season is minus the mean offset over the hindcast *)
(* years rather than zero                                                  *)

\* the mean of the raw ensemble of region r at time t of the season, over
\* all realisations and years at once
RawMean(r, t) ==
    Div(Sum([s \in 1 .. (args.model_da.nreal * Len(args.model_da.year)) |->
                args.model_da.data[r][((s - 1) % Len(args.model_da.year)) + 1][t]
                                  [((s - 1) \div Len(args.model_da.year)) + 1]]),
        FromInt(args.model_da.nreal * Len(args.model_da.year)))

\* anomaly holds raw - offset - rawmean for every year, time and realisation,
\* and its mean at every time is minus the mean of the offsets
IsOffsetAnomaly(anomaly, r, offsets) ==
    /\ DOMAIN anomaly = DOMAIN args.model_da.year
    /\ \A yi \in DOMAIN anomaly : \A t \in 1 .. args.model_da.ntime :
          \A k \in 1 .. args.model_da.nreal :
              anomaly[yi][t][k] =
                  Sub(Sub(args.model_da.data[r][yi][t][k],
                          offsets.data[IndexOf(offsets.year, args.model_da.year[yi])]),
                      RawMean(r, t))
    /\ \A t \in 1 .. args.model_da.ntime :
          Mean([yi \in DOMAIN anomaly |-> Mean(anomaly[yi][t])]) =
              Sub(Zero, Mean([yi \in DOMAIN args.model_da.year |->
                            offsets.data[IndexOf(offsets.year, args.model_da.year[yi])]]))

C30_AnomalyKeepsTheMeanOffset ==
    /\ UnseenDone =>
          \A r \in DOMAIN args.model_da.region :
              \A anomaly \in {DetrendedAnomaly(args.model_da, r, ret.diff_trends[r])} :
                  /\ IsOffsetAnomaly(anomaly, r, ret.diff_trends[r])
                  /\ ret.unseen_distr.data[r] =
                         StackedMaxima(anomaly, args.model_da.year, args.model_da.nreal,
                                       args.extr_avg_period)
    /\ FunctimeDone =>
          \A r \in DOMAIN args.model_da.region : \A p \in DOMAIN args.core_pivot_yrs :
              \A offsets \in {GetPivotArr(TimeMean(args.trend_data), args.core_pivot_yrs[p], r,
                                          args.model_da.year, args.trend_source, FALSE,
                                          None).diff_trend} :
                  \A anomaly \in {PivotAnomaly(args.model_da, r, offsets)} :
                      /\ IsOffsetAnomaly(anomaly, r, offsets)
                      /\ ret.risks.data[r][p] =
                             CalcPercentile(
                                 StackedMaxima(anomaly, args.model_da.year,
                                               args.model_da.nreal, args.extr_avg_period),
                                 args.focus_event[args.model_da.region[r]])

\* a distribution whose anomaly has a mean other than zero: the offsets of
\* the hindcast years do not cancel
C30_Witness ==
    /\ UnseenDone
    /\ Mean(ret.diff_trends[1].data) # Zero
    /\ \E t \in 1 .. args.model_da.ntime :
          Mean([yi \in DOMAIN args.model_da.year |->
                    Mean(DetrendedAnomaly(args.model_da, 1, ret.diff_trends[1])[yi][t])])
              = Sub(Zero, Mean(ret.diff_trends[1].data))
    /\ \E sa, sb \in DOMAIN ret.unseen_distr.data[1] :
          ret.unseen_distr.data[1][sa] # ret.unseen_distr.data[1][sb]

====
